---- MODULE Spec2Model ----
(***************************************************************************)
(* MoIRA web backend: the job store and its coordinating tasks             *)
(* (backend/main.py), the bounded worker pool, and the stage orchestrator  *)
(* MoIRA.run_workflow (backend/moira/core.py).                             *)
(*                                                                         *)
(* Threads of control, as in the code:                                     *)
(*   - the event loop runs the async handlers and coroutines (run_workflow *)
(*     of main.py, _run_workflow_task); a coroutine gives up the loop only *)
(*     at an await;                                                        *)
(*   - the two pool threads of _executor run _run_workflow_sync;           *)
(*   - get_job and get_job_result are plain (sync) handlers, which the     *)
(*     framework runs on request threads, concurrently with the loop and   *)
(*     the pool threads. A step of the model is one read or one write of   *)
(*     the shared _jobs dictionary.                                        *)
(***************************************************************************)
EXTENDS Integers, Sequences, FiniteSets, TLC

\* ----------------------------------------------------------------- bounds
MaxJobs == 2
MaxLifecycleSteps == 2
MaxPoolJobs == 3
MaxSteps == 3
MaxFdrProbes == 3
PScale == 4
MaxPcaSamples == 12
MaxPcaProbes == 12

\* main.py:75  ThreadPoolExecutor(max_workers=2)
MaxWorkers == 2

None == "None"

Users == {"alice", "bob"}

\* main.py:165-173  _get_project_meta: the identities above have uploaded a
\* project (project_meta.json exists); one more identity has not
Identities == Users \cup {"carol"}

HasProject(user_id) == user_id \in Users
Samples == {"s1", "s2"}

\* core.py:23-32
KNOWN_STEPS ==
  << "read_idat_files", "quality_control", "combat_normalization",
     "basic_statistics", "perform_pca", "create_heatmap",
     "create_volcano_plot", "differential_analysis" >>

KnownSteps == { KNOWN_STEPS[i] : i \in 1..Len(KNOWN_STEPS) }

\* Raw identifiers a client may send: the vocabulary, two spellings that
\* strip().lower() folds onto it, and one identifier outside it.
RawIds == KnownSteps \cup {"READ_IDAT_FILES", " Quality_Control ", "plot_everything"}

\* core.py:353  step = raw_step.strip().lower()
Normalize(raw) ==
  CASE raw = "READ_IDAT_FILES"   -> "read_idat_files"
    [] raw = " Quality_Control " -> "quality_control"
    [] OTHER                     -> raw

\* Sequences over S of length lo..hi
SeqsOf(S, lo, hi) == UNION { [1..n -> S] : n \in lo..hi }

\* ------------------------------------------------- the Stage Result Ledger
\* core.py:343  results: Dict[str, Any], an insertion-ordered dictionary,
\* modelled as a sequence of [key, val] with val "ok" (a result payload) or
\* "error" (a payload carrying the "error" field).
HasKey(results, k) == \E i \in 1..Len(results) : results[i].key = k

Get(results, k) ==
  IF HasKey(results, k)
  THEN results[CHOOSE i \in 1..Len(results) : results[i].key = k].val
  ELSE None

\* Mutant of Put: the ledger is a list, every write adds an entry
PutAppended(results, k, v) == Append(results, [key |-> k, val |-> v])

\* Mutant of Put: a new key goes to the front of the dictionary
PutFirst(results, k, v) ==
  IF HasKey(results, k)
  THEN [i \in 1..Len(results) |->
          IF results[i].key = k THEN [key |-> k, val |-> v] ELSE results[i]]
  ELSE << [key |-> k, val |-> v] >> \o results

\* results[k] = v: a key already present keeps its place, a new one is appended
Put(results, k, v) ==
  IF HasKey(results, k)
  THEN [i \in 1..Len(results) |->
          IF results[i].key = k THEN [key |-> k, val |-> v] ELSE results[i]]
  ELSE Append(results, [key |-> k, val |-> v])

Keys(results) == [i \in 1..Len(results) |-> results[i].key]

\* ------------------------------------------------------- the Pipeline State
\* core.py:344-346  current_betas, current_detP (None, or the matrix, of which
\* the model keeps the sample columns), current_targets (None, "loaded": the
\* samplesheet as load_samplesheet read it, "prepared": re-indexed by
\* _prepare_targets).
NoMatrix == [present |-> FALSE, cols |-> {}]

Matrix(c) == [present |-> TRUE, cols |-> c]

InitialState ==
  [betas |-> NoMatrix, detP |-> NoMatrix, targets |-> "loaded", results |-> << >>]

\* A Column Mapping, kept as the set of concepts it maps to a column of the sheet.
ColumnMappings == { {}, {"beadchip", "position", "batch"} }

\* preprocessing.py:175-202  targets stays None unless column_mappings is
\* non-empty and _prepare_targets finds the beadchip and position columns
PreparedTargets(cm) ==
  IF {"beadchip", "position"} \subseteq cm THEN "prepared" ELSE None

\* preprocessing.py:166-190  the sample columns read_idat_files returns: those
\* of the data source, cut to the samples the prepared targets name if any is
ReadColumns(cm) ==
  IF PreparedTargets(cm) = None THEN {Samples}
  ELSE { c \in SUBSET Samples : c # {} }

\* What a branch of the dispatch does with the Pipeline State st: its check of
\* the state raises before the collaborator or engine function is called, the
\* function is called and raises (every branch raises, if at all, before it
\* assigns anything), the function is called and the branch runs through and
\* leaves a new state, or no branch matches and nothing is called.
\* diff names where create_volcano_plot took its differential result from.
Refuses(st) == [raised |-> TRUE, called |-> FALSE, diff |-> "none", st |-> st]

Raises(st) == [raised |-> TRUE, called |-> TRUE, diff |-> "none", st |-> st]

Leaves(st) == [raised |-> FALSE, called |-> TRUE, diff |-> "none", st |-> st]

Skips(st) == [raised |-> FALSE, called |-> FALSE, diff |-> "none", st |-> st]

Stored(st, step, v) == [st EXCEPT !.results = Put(st.results, step, v)]

\* core.py:359-371
ReadIdatFiles(st, cm) ==
  {Raises(st)} \cup
  { Leaves([betas |-> Matrix(c), detP |-> Matrix(c),
            targets |-> PreparedTargets(cm),
            results |-> Put(st.results, "read_idat_files", "ok")]) :
      c \in ReadColumns(cm) }

\* core.py:373-384 and preprocessing.py:270-278: the samples kept are those of
\* betas whose mean detection value passes; the stage raises when none of
\* detP's does. Only current_betas is replaced.
QualityControl(st) ==
  IF ~st.betas.present \/ ~st.detP.present
  THEN {Refuses(st)}
  ELSE {Raises(st)} \cup
       { Leaves([st EXCEPT !.betas = Matrix(st.betas.cols \cap good),
                           !.results = Put(st.results, "quality_control", "ok")]) :
           good \in { g \in SUBSET st.detP.cols : g # {} } }

\* Mutant of CombatNormalization: the check for the sample table is missing
CombatNormalizationWithoutTargets(st) ==
  IF ~st.betas.present
  THEN {Refuses(st)}
  ELSE {Raises(st), Leaves(Stored(st, "combat_normalization", "ok"))}

\* core.py:386-406
CombatNormalization(st) ==
  IF ~st.betas.present \/ st.targets = None
  THEN {Refuses(st)}
  ELSE {Raises(st), Leaves(Stored(st, "combat_normalization", "ok"))}

\* Mutant of Analysis: the stage leaves the run without its sample table
AnalysisDroppingTargets(st, step) ==
  IF ~st.betas.present
  THEN {Refuses(st)}
  ELSE {Raises(st), Leaves([Stored(st, step, "ok") EXCEPT !.targets = None])}

\* Mutant of Analysis: the check for a present Beta Matrix is missing
AnalysisUnchecked(st, step) ==
  {Raises(st), Leaves(Stored(st, step, "ok"))}

\* core.py:408-444  basic_statistics, perform_pca, create_heatmap
Analysis(st, step) ==
  IF ~st.betas.present
  THEN {Refuses(st)}
  ELSE {Raises(st), Leaves(Stored(st, step, "ok"))}

\* core.py:446-454  the payload differential_analysis returns is stored as it
\* is, a structured error payload (analysis.py:308-333) included
DifferentialAnalysis(st) ==
  IF ~st.betas.present
  THEN {Refuses(st)}
  ELSE {Raises(st),
        Leaves(Stored(st, "differential_analysis", "error")),
        Leaves(Stored(st, "differential_analysis", "ok"))}

\* Mutant of CreateVolcanoPlot: the differential analysis is always computed
\* inline and stored in the ledger
CreateVolcanoPlotRecomputing(st) ==
  IF ~st.betas.present
  THEN {Refuses(st)}
  ELSE { [o EXCEPT !.diff = "inline"] :
           o \in { Raises(st),
                   Leaves(Stored(Stored(st, "differential_analysis", "error"),
                                 "create_volcano_plot", "error")),
                   Leaves(Stored(Stored(st, "differential_analysis", "ok"),
                                 "create_volcano_plot", "ok")) } }

\* core.py:456-473 and analysis.py:409-419: a differential_analysis entry of
\* the ledger is passed as diff_results and reused, and an error entry comes
\* back as the stage's payload; without one (results.get gives None) the
\* analysis is computed inline and may give an error payload too. Only the
\* create_volcano_plot key is assigned.
CreateVolcanoPlot(st) ==
  IF ~st.betas.present
  THEN {Refuses(st)}
  ELSE LET source == IF HasKey(st.results, "differential_analysis")
                     THEN "ledger" ELSE "inline"
           payloads ==
             IF source = "ledger" /\ Get(st.results, "differential_analysis") = "error"
             THEN {"error"} ELSE {"error", "ok"}
       IN  { [o EXCEPT !.diff = source] :
               o \in {Raises(st)} \cup
                     { Leaves(Stored(st, "create_volcano_plot", v)) : v \in payloads } }

\* Mutant of Dispatch: an identifier that matches no branch raises
DispatchUnknownRaises(step, st, cm) ==
  CASE step = "read_idat_files"       -> ReadIdatFiles(st, cm)
    [] step = "quality_control"       -> QualityControl(st)
    [] step = "combat_normalization"  -> CombatNormalization(st)
    [] step = "basic_statistics"      -> Analysis(st, step)
    [] step = "perform_pca"           -> Analysis(st, step)
    [] step = "create_heatmap"        -> Analysis(st, step)
    [] step = "differential_analysis" -> DifferentialAnalysis(st)
    [] step = "create_volcano_plot"   -> CreateVolcanoPlot(st)
    [] OTHER                          -> {Raises(st)}

\* core.py:359-476  the if/elif chain; an identifier that matches no branch is
\* logged and nothing else happens
Dispatch(step, st, cm) ==
  CASE step = "read_idat_files"       -> ReadIdatFiles(st, cm)
    [] step = "quality_control"       -> QualityControl(st)
    [] step = "combat_normalization"  -> CombatNormalization(st)
    [] step = "basic_statistics"      -> Analysis(st, step)
    [] step = "perform_pca"           -> Analysis(st, step)
    [] step = "create_heatmap"        -> Analysis(st, step)
    [] step = "differential_analysis" -> DifferentialAnalysis(st)
    [] step = "create_volcano_plot"   -> CreateVolcanoPlot(st)
    [] OTHER                          -> {Skips(st)}

\* Mutant of Failed: the exception is logged and no entry is recorded
FailedUnrecorded(st, step) == st

\* core.py:478-482  except Exception: results[step] = {"error": str(exc)}
Failed(st, step) == [st EXCEPT !.results = Put(st.results, step, "error")]

\* core.py:358-482  the try statement of the loop body: the Pipeline State a
\* branch outcome leaves the loop with
AfterTry(outcome, step) ==
  IF outcome.raised THEN Failed(outcome.st, step) ELSE outcome.st

\* ------------------------------------------------------------------ state
VARIABLES
  jobs,      \* main.py:74   _jobs: job_id -> Job Record
  args,      \* main.py:348-355  the keyword arguments add_task keeps per job
  task,      \* where each _run_workflow_task coroutine stands
  fut,       \* main.py:444  the future run_in_executor returns, per job
  queue,     \* main.py:75   the executor's work queue (FIFO)
  run,       \* the frame of _run_workflow_sync / MoIRA.run_workflow per job
  reader,    \* the request thread of one get_job / get_job_result call
  response,  \* the HTTP response the last step sent, if it sent one
  summary,   \* core.py:485  <output_dir>/workflow_summary.json, one per identity
  call       \* one call of a function of moira/analysis.py: input and output

vars == << jobs, args, task, fut, queue, run, reader, response, summary, call >>

NoResult == [present |-> FALSE, ledger |-> << >>]

Result(ledger) == [present |-> TRUE, ledger |-> ledger]

NoFuture == [state |-> "pending", value |-> << >>, exc |-> None]

IdleRun == [pc |-> "idle", idx |-> 0, st |-> InitialState,
            plog |-> << >>, hlog |-> << >>]

IdleReader == [pc |-> "idle", job |-> 0, caller |-> None, status |-> None,
               step |-> None,
               step_idx |-> 0, total_steps |-> 0]

NoResponse ==
  [op |-> "none", caller |-> None, code |-> 0, job_id |-> 0, status |-> None,
   step |-> None,
   step_idx |-> 0, total_steps |-> 0, error |-> None, result |-> NoResult,
   detail |-> None]

\* core.py:485-492  the summary file of an identity: not there, written whole,
\* or left cut short by a write that raised after open(..., "w") truncated it
NoSummary == [state |-> "absent", steps |-> << >>, results |-> << >>]

Truncated == [state |-> "partial", steps |-> << >>, results |-> << >>]

\* core.py:501-511  the ledger as _make_serializable returns it: the same keys
\* in the same order, each payload turned into plain values (an error payload
\* stays an error payload)
MakeSerializable(results) ==
  [i \in 1..Len(results) |-> [key |-> results[i].key, val |-> results[i].val]]

\* core.py:487-488  {"steps": workflow_steps, "results": _make_serializable(results)}
Written(steps, results) ==
  [state |-> "written", steps |-> steps, results |-> MakeSerializable(results)]

\* No call of an analysis function is under way
NoCall == [fn |-> "none"]

\* main.py:336  str(uuid.uuid4()): an identifier no record of the store has
\* (the least unused one stands for it)
uuid4 == CHOOSE id \in 1..(Cardinality(DOMAIN jobs) + 1) :
           /\ id \notin DOMAIN jobs
           /\ \A other \in 1..(id - 1) : other \in DOMAIN jobs

\* Mutant of NewJobRecord: the total is not taken from the request
NewJobRecordNoTotal(user_id, steps) ==
  [status |-> "pending", step |-> None, step_idx |-> 0,
   total_steps |-> 0, result |-> NoResult, error |-> None,
   user_id |-> user_id, created_at |-> Cardinality(DOMAIN jobs)]

\* main.py:337-346  created_at is datetime.utcnow(): the time of the launch,
\* told by the number of launches before it
NewJobRecord(user_id, steps) ==
  [status |-> "pending", step |-> None, step_idx |-> 0,
   total_steps |-> Len(steps), result |-> NoResult, error |-> None,
   user_id |-> user_id, created_at |-> Cardinality(DOMAIN jobs)]

\* The event loop is free when no coroutine stands between two statements that
\* no await separates (main.py:453-454 and 456-457).
LoopFree == \A j \in DOMAIN task : task[j] \notin {"set_result", "set_error"}

\* Jobs a pool thread is running
Active == { j \in DOMAIN run : run[j].pc # "idle" }

\* The server as it starts: no job, no request under way, no summary file
NoJobs ==
  /\ jobs = << >>
  /\ args = << >>
  /\ task = << >>
  /\ fut = << >>
  /\ queue = << >>
  /\ run = << >>
  /\ reader = IdleReader
  /\ response = NoResponse
  /\ summary = [u \in Users |-> NoSummary]

Init ==
  /\ NoJobs
  /\ call = NoCall

\* ------------------------------------------------------------ POST /run
\* main.py:319-357  run_workflow (the handler), with a non-empty stage list
Launch(user_id, steps, cm) ==
  /\ LoopFree
  /\ HasProject(user_id)
  /\ steps # << >>
  /\ LET job_id == uuid4 IN
       /\ jobs' = jobs @@ (job_id :> NewJobRecord(user_id, steps))
       /\ args' = args @@ (job_id :> [user_id |-> user_id, steps |-> steps, cm |-> cm])
       /\ task' = task @@ (job_id :> "queued")
       /\ fut' = fut @@ (job_id :> NoFuture)
       /\ run' = run @@ (job_id :> IdleRun)
       /\ response' = [NoResponse EXCEPT !.op = "run", !.caller = user_id, !.code = 200,
                                          !.job_id = job_id, !.status = "pending"]
  /\ UNCHANGED << summary, call, queue, reader >>

\* main.py:331 and 165-171  the identity has no project record: not found
LaunchNoProject(user_id) ==
  /\ LoopFree
  /\ ~HasProject(user_id)
  /\ response' = [NoResponse EXCEPT !.op = "run", !.caller = user_id, !.code = 404,
                                     !.detail = "No uploaded project found for this user."]
  /\ UNCHANGED << summary, call, jobs, args, task, fut, queue, run, reader >>

\* Mutant of LaunchEmpty: the check of the stage list is missing
LaunchEmptyAccepted(user_id, steps) ==
  /\ LoopFree
  /\ HasProject(user_id)
  /\ steps = << >>
  /\ Cardinality(DOMAIN jobs) < MaxJobs
  /\ LET job_id == uuid4 IN
       /\ jobs' = jobs @@ (job_id :> NewJobRecord(user_id, steps))
       /\ args' = args @@ (job_id :> [user_id |-> user_id, steps |-> steps, cm |-> {}])
       /\ task' = task @@ (job_id :> "queued")
       /\ fut' = fut @@ (job_id :> NoFuture)
       /\ run' = run @@ (job_id :> IdleRun)
       /\ response' = [NoResponse EXCEPT !.op = "run", !.caller = user_id, !.code = 200,
                                          !.job_id = job_id, !.status = "pending"]
  /\ UNCHANGED << summary, call, queue, reader >>

\* main.py:333-334  an empty stage list is refused
LaunchEmpty(user_id, steps) ==
  /\ LoopFree
  /\ HasProject(user_id)
  /\ steps = << >>
  /\ response' = [NoResponse EXCEPT !.op = "run", !.caller = user_id, !.code = 400,
                                     !.detail = "workflow_steps cannot be empty."]
  /\ UNCHANGED << summary, call, jobs, args, task, fut, queue, run, reader >>

\* --------------------------------------------------- _run_workflow_task
\* main.py:441-452  status = "running", then the run is handed to the executor
\* and the coroutine awaits its future
TaskStart(j) ==
  /\ LoopFree
  /\ task[j] = "queued"
  /\ jobs' = [jobs EXCEPT ![j].status = "running"]
  /\ queue' = Append(queue, j)
  /\ task' = [task EXCEPT ![j] = "await"]
  /\ response' = NoResponse
  /\ UNCHANGED << summary, call, args, fut, run, reader >>

\* main.py:453  the future gave a result: status = "completed"
TaskCompleted(j) ==
  /\ LoopFree
  /\ task[j] = "await"
  /\ fut[j].state = "result"
  /\ jobs' = [jobs EXCEPT ![j].status = "completed"]
  /\ task' = [task EXCEPT ![j] = "set_result"]
  /\ response' = NoResponse
  /\ UNCHANGED << summary, call, args, fut, queue, run, reader >>

\* Mutant of TaskSetResult: storing the result raises inside the try block, and
\* the except clause marks the completed job failed
TaskSetResultRaising(j) ==
  /\ task[j] = "set_result"
  /\ jobs' = [jobs EXCEPT ![j].status = "failed"]
  /\ task' = [task EXCEPT ![j] = "set_error"]
  /\ response' = NoResponse
  /\ UNCHANGED << summary, call, args, fut, queue, run, reader >>

\* main.py:454  result = result
TaskSetResult(j) ==
  /\ task[j] = "set_result"
  /\ jobs' = [jobs EXCEPT ![j].result = Result(fut[j].value)]
  /\ task' = [task EXCEPT ![j] = "done"]
  /\ response' = NoResponse
  /\ UNCHANGED << summary, call, args, fut, queue, run, reader >>

\* main.py:455-456  the future raised: status = "failed"
TaskFailed(j) ==
  /\ LoopFree
  /\ task[j] = "await"
  /\ fut[j].state = "exception"
  /\ jobs' = [jobs EXCEPT ![j].status = "failed"]
  /\ task' = [task EXCEPT ![j] = "set_error"]
  /\ response' = NoResponse
  /\ UNCHANGED << summary, call, args, fut, queue, run, reader >>

\* main.py:457  error = str(exc)
TaskSetError(j) ==
  /\ task[j] = "set_error"
  /\ jobs' = [jobs EXCEPT ![j].error = fut[j].exc]
  /\ task' = [task EXCEPT ![j] = "done"]
  /\ response' = NoResponse
  /\ UNCHANGED << summary, call, args, fut, queue, run, reader >>

\* ------------------------------------------------------ the worker pool
\* Mutant of WorkerPickup: a thread is started for every queued run
WorkerPickupUnbounded ==
  /\ queue # << >>
  /\ run' = [run EXCEPT ![Head(queue)] = [IdleRun EXCEPT !.pc = "init"]]
  /\ queue' = Tail(queue)
  /\ response' = NoResponse
  /\ UNCHANGED << summary, call, jobs, args, task, fut, reader >>

\* main.py:75 and 444-452  a pool thread that is free takes the oldest queued
\* run; there are MaxWorkers threads
WorkerPickup ==
  /\ queue # << >>
  /\ Cardinality(Active) < MaxWorkers
  /\ run' = [run EXCEPT ![Head(queue)] = [IdleRun EXCEPT !.pc = "init"]]
  /\ queue' = Tail(queue)
  /\ response' = NoResponse
  /\ UNCHANGED << summary, call, jobs, args, task, fut, reader >>

\* Mutant of Returned: the future is set and the pool thread is not given back
ReturnedHoldingThread(j, value) ==
  /\ fut' = [fut EXCEPT ![j] = [state |-> "result", value |-> value, exc |-> None]]
  /\ run' = [run EXCEPT ![j].pc = "returned"]

\* The pool thread's call ends: the future is set and the thread is free again
Returned(j, value) ==
  /\ fut' = [fut EXCEPT ![j] = [state |-> "result", value |-> value, exc |-> None]]
  /\ run' = [run EXCEPT ![j] = IdleRun]

Raised(j, exc) ==
  /\ fut' = [fut EXCEPT ![j] = [state |-> "exception", value |-> << >>, exc |-> exc]]
  /\ run' = [run EXCEPT ![j] = IdleRun]

\* main.py:468-481 and core.py:343-350  the orchestrator is built, the
\* samplesheet loaded and the plots directory made; run_workflow enters its loop
WorkerInit(j) ==
  /\ run[j].pc = "init"
  /\ run' = [run EXCEPT ![j].pc = "step", ![j].idx = 1]
  /\ response' = NoResponse
  /\ UNCHANGED << summary, call, jobs, args, task, fut, queue, reader >>

\* main.py:474-480 and core.py:348  ... or one of them raises (no samplesheet, an
\* unreadable file, no directory), which ends the call
WorkerInitRaises(j) ==
  /\ run[j].pc = "init"
  /\ Raised(j, "samplesheet not loaded")
  /\ response' = NoResponse
  /\ UNCHANGED << summary, call, jobs, args, task, queue, reader >>

\* Mutant of ProgressStep: the position is counted from 0
ProgressStepFromZero(j) ==
  /\ run[j].pc = "step"
  /\ LET step == Normalize(args[j].steps[run[j].idx])
         total == Len(args[j].steps) IN
       /\ jobs' = [jobs EXCEPT ![j].step = step]
       /\ run' = [run EXCEPT ![j].pc = "step_idx",
                             ![j].plog = Append(@, << step, run[j].idx - 1, total >>)]
  /\ response' = NoResponse
  /\ UNCHANGED << summary, call, args, task, fut, queue, reader >>

\* Mutant of ProgressStep: the callback writes to the record launched last
ProgressStepLastJob(j) ==
  /\ run[j].pc = "step"
  /\ LET step == Normalize(args[j].steps[run[j].idx])
         total == Len(args[j].steps)
         last == Cardinality(DOMAIN jobs) IN
       /\ jobs' = [jobs EXCEPT ![last].step = step]
       /\ run' = [run EXCEPT ![j].pc = "step_idx",
                             ![j].plog = Append(@, << step, run[j].idx, total >>)]
  /\ response' = NoResponse
  /\ UNCHANGED << summary, call, args, task, fut, queue, reader >>

\* core.py:352-356 and main.py:484  the loop takes the next identifier and calls
\* on_progress(step, idx, total), whose first statement writes step
ProgressStep(j) ==
  /\ run[j].pc = "step"
  /\ LET step == Normalize(args[j].steps[run[j].idx])
         total == Len(args[j].steps) IN
       /\ jobs' = [jobs EXCEPT ![j].step = step]
       /\ run' = [run EXCEPT ![j].pc = "step_idx",
                             ![j].plog = Append(@, << step, run[j].idx, total >>)]
  /\ response' = NoResponse
  /\ UNCHANGED << summary, call, args, task, fut, queue, reader >>

\* Mutant of ProgressStepIdx: the position written is one ahead
ProgressStepIdxAhead(j) ==
  /\ run[j].pc = "step_idx"
  /\ jobs' = [jobs EXCEPT ![j].step_idx = run[j].idx + 1]
  /\ run' = [run EXCEPT ![j].pc = "total_steps"]
  /\ response' = NoResponse
  /\ UNCHANGED << summary, call, args, task, fut, queue, reader >>

\* Mutant of ProgressStepIdx: the callback is made for known stages only
ProgressStepIdxKnownOnly(j) ==
  /\ run[j].pc = "step_idx"
  /\ jobs' = IF Normalize(args[j].steps[run[j].idx]) \in KnownSteps
             THEN [jobs EXCEPT ![j].step_idx = run[j].idx]
             ELSE jobs
  /\ run' = [run EXCEPT ![j].pc = "total_steps"]
  /\ response' = NoResponse
  /\ UNCHANGED << summary, call, args, task, fut, queue, reader >>

\* main.py:485
ProgressStepIdx(j) ==
  /\ run[j].pc = "step_idx"
  /\ jobs' = [jobs EXCEPT ![j].step_idx = run[j].idx]
  /\ run' = [run EXCEPT ![j].pc = "total_steps"]
  /\ response' = NoResponse
  /\ UNCHANGED << summary, call, args, task, fut, queue, reader >>

\* main.py:486
ProgressTotalSteps(j) ==
  /\ run[j].pc = "total_steps"
  /\ jobs' = [jobs EXCEPT ![j].total_steps = Len(args[j].steps)]
  /\ run' = [run EXCEPT ![j].pc = "stage"]
  /\ response' = NoResponse
  /\ UNCHANGED << summary, call, args, task, fut, queue, reader >>

\* core.py:358-482  the stage of the current identifier runs (or the identifier
\* is unknown and skipped) and the loop goes on
Stage(j) ==
  /\ run[j].pc = "stage"
  /\ LET idx == run[j].idx
         step == Normalize(args[j].steps[idx]) IN
     \E outcome \in Dispatch(step, run[j].st, args[j].cm) :
       LET st == AfterTry(outcome, step) IN
       run' = [run EXCEPT
                 ![j].st = st,
                 ![j].hlog = Append(@, [idx |-> idx, step |-> step,
                                        raised |-> outcome.raised,
                                        called |-> outcome.called,
                                        diff |-> outcome.diff,
                                        before |-> run[j].st,
                                        entry |-> Get(st.results, step)]),
                 ![j].idx = idx + 1,
                 ![j].pc = IF idx = Len(args[j].steps) THEN "summary" ELSE "step"]
  /\ response' = NoResponse
  /\ UNCHANGED << summary, call, jobs, args, task, fut, queue, reader >>

\* Mutant of Summary: the ledger is returned and no summary is written
SummaryUnwritten(j) ==
  /\ run[j].pc = "summary"
  /\ Returned(j, run[j].st.results)
  /\ response' = NoResponse
  /\ UNCHANGED << summary, call, jobs, args, task, queue, reader >>

\* core.py:484-495  the summary record is written and the ledger returned
Summary(j) ==
  /\ run[j].pc = "summary"
  /\ summary' = [summary EXCEPT ![args[j].user_id] =
                                    Written(args[j].steps, run[j].st.results)]
  /\ Returned(j, run[j].st.results)
  /\ response' = NoResponse
  /\ UNCHANGED << call, jobs, args, task, queue, reader >>

\* core.py:485-492  ... or writing it raises: open() failed and the file is as
\* it was, or json.dump failed and the file is cut short
SummaryRaises(j) ==
  /\ run[j].pc = "summary"
  /\ \E file \in {summary[args[j].user_id], Truncated} :
       summary' = [summary EXCEPT ![args[j].user_id] = file]
  /\ Raised(j, "summary not written")
  /\ response' = NoResponse
  /\ UNCHANGED << call, jobs, args, task, queue, reader >>

\* ------------------------------------------------------------- queries
\* Mutant of Refusal: the ownership check is missing
RefusalWithoutOwner(job_id, user_id) ==
  IF job_id \notin DOMAIN jobs THEN 404 ELSE 0

\* main.py:367-371 and 391-395  the lookup and the ownership check the two
\* query handlers share: 0 when the caller may read the record
Refusal(job_id, user_id) ==
  IF job_id \notin DOMAIN jobs THEN 404
  ELSE IF jobs[job_id].user_id # user_id THEN 403
  ELSE 0

Refused(op, job_id, user_id, code) ==
  [NoResponse EXCEPT !.op = op, !.caller = user_id, !.code = code,
                     !.job_id = job_id,
                     !.detail = IF code = 404 THEN "Job not found." ELSE "Forbidden."]

\* main.py:390-395  get_job_result is refused: unknown job or not the owner
GetJobResultRefused(job_id, user_id) ==
  /\ reader.pc = "idle"
  /\ Refusal(job_id, user_id) # 0
  /\ response' = Refused("result", job_id, user_id, Refusal(job_id, user_id))
  /\ UNCHANGED << summary, call, jobs, args, task, fut, queue, run, reader >>

\* main.py:396-400  the status read is not "completed": a state error naming it
GetJobResultNotCompleted(job_id, user_id) ==
  /\ reader.pc = "idle"
  /\ Refusal(job_id, user_id) = 0
  /\ jobs[job_id].status # "completed"
  /\ response' = [NoResponse EXCEPT !.op = "result", !.caller = user_id,
                                     !.code = 400, !.job_id = job_id,
                                     !.detail = jobs[job_id].status]
  /\ UNCHANGED << summary, call, jobs, args, task, fut, queue, run, reader >>

\* main.py:396  the status read is "completed"; the result is read next
GetJobResultCheck(job_id, user_id) ==
  /\ reader.pc = "idle"
  /\ Refusal(job_id, user_id) = 0
  /\ jobs[job_id].status = "completed"
  /\ reader' = [IdleReader EXCEPT !.pc = "result", !.job = job_id,
                                  !.caller = user_id,
                                  !.status = jobs[job_id].status]
  /\ response' = NoResponse
  /\ UNCHANGED << summary, call, jobs, args, task, fut, queue, run >>

\* main.py:402  return {"job_id": job_id, "result": job["result"]}
GetJobResultReturn ==
  /\ reader.pc = "result"
  /\ response' = [NoResponse EXCEPT !.op = "result", !.caller = reader.caller,
                                     !.code = 200, !.job_id = reader.job,
                                     !.status = reader.status,
                                     !.result = jobs[reader.job].result]
  /\ reader' = IdleReader
  /\ UNCHANGED << summary, call, jobs, args, task, fut, queue, run >>

\* main.py:366-371  get_job is refused
GetJobRefused(job_id, user_id) ==
  /\ reader.pc = "idle"
  /\ Refusal(job_id, user_id) # 0
  /\ response' = Refused("status", job_id, user_id, Refusal(job_id, user_id))
  /\ UNCHANGED << summary, call, jobs, args, task, fut, queue, run, reader >>

\* main.py:373-375  the response dictionary is built field by field: status
GetJobReadStatus(job_id, user_id) ==
  /\ reader.pc = "idle"
  /\ Refusal(job_id, user_id) = 0
  /\ reader' = [IdleReader EXCEPT !.pc = "step", !.job = job_id,
                                  !.caller = user_id,
                                  !.status = jobs[job_id].status]
  /\ response' = NoResponse
  /\ UNCHANGED << summary, call, jobs, args, task, fut, queue, run >>

\* main.py:376
GetJobReadStep ==
  /\ reader.pc = "step"
  /\ reader' = [reader EXCEPT !.pc = "step_idx", !.step = jobs[reader.job].step]
  /\ response' = NoResponse
  /\ UNCHANGED << summary, call, jobs, args, task, fut, queue, run >>

\* main.py:377
GetJobReadStepIdx ==
  /\ reader.pc = "step_idx"
  /\ reader' = [reader EXCEPT !.pc = "total_steps",
                              !.step_idx = jobs[reader.job].step_idx]
  /\ response' = NoResponse
  /\ UNCHANGED << summary, call, jobs, args, task, fut, queue, run >>

\* main.py:378
GetJobReadTotalSteps ==
  /\ reader.pc = "total_steps"
  /\ reader' = [reader EXCEPT !.pc = "error",
                              !.total_steps = jobs[reader.job].total_steps]
  /\ response' = NoResponse
  /\ UNCHANGED << summary, call, jobs, args, task, fut, queue, run >>

\* main.py:379-381  error is read and the snapshot returned
GetJobReturn ==
  /\ reader.pc = "error"
  /\ response' = [NoResponse EXCEPT !.op = "status", !.caller = reader.caller,
                                     !.code = 200, !.job_id = reader.job,
                                     !.status = reader.status,
                                     !.step = reader.step,
                                     !.step_idx = reader.step_idx,
                                     !.total_steps = reader.total_steps,
                                     !.error = jobs[reader.job].error]
  /\ reader' = IdleReader
  /\ UNCHANGED << summary, call, jobs, args, task, fut, queue, run >>

\* ---------------------------------------------------------- specifications
\* What one job does once launched
JobStep(j) ==
  \/ TaskStart(j)
  \/ TaskCompleted(j)
  \/ TaskSetResult(j)
  \/ TaskFailed(j)
  \/ TaskSetError(j)
  \/ WorkerInit(j)
  \/ WorkerInitRaises(j)
  \/ ProgressStep(j)
  \/ ProgressStepIdx(j)
  \/ ProgressTotalSteps(j)
  \/ Stage(j)
  \/ Summary(j)
  \/ SummaryRaises(j)

\* A client asks for results, or asks for the status of a job it may not read
ResultQuery ==
  \/ \E job_id \in 1..MaxJobs, user_id \in Users :
       \/ GetJobResultRefused(job_id, user_id)
       \/ GetJobResultNotCompleted(job_id, user_id)
       \/ GetJobResultCheck(job_id, user_id)
       \/ GetJobRefused(job_id, user_id)
  \/ GetJobResultReturn

\* A client polls the status of its own job
StatusQuery ==
  \/ \E job_id \in DOMAIN jobs : GetJobReadStatus(job_id, jobs[job_id].user_id)
  \/ GetJobReadStep
  \/ GetJobReadStepIdx
  \/ GetJobReadTotalSteps
  \/ GetJobReturn

\* The job lifecycle: up to MaxJobs launches by two identities with short stage
\* lists, and one client querying.
LifecycleIds == {"read_idat_files", "plot_everything"}

LifecycleLists == SeqsOf(LifecycleIds, 0, MaxLifecycleSteps)

Next ==
  \/ \E user_id \in Users, steps \in LifecycleLists :
       \/ /\ Cardinality(DOMAIN jobs) < MaxJobs
          /\ Launch(user_id, steps, {})
       \/ LaunchEmpty(user_id, steps)
  \/ \E user_id \in Identities : LaunchNoProject(user_id)
  \/ \E j \in DOMAIN jobs : JobStep(j)
  \/ WorkerPickup
  \/ ResultQuery

Spec == Init /\ [][Next]_vars

\* The worker pool: more launches than pool threads, one-stage runs, no queries.
NextPool ==
  \/ /\ Cardinality(DOMAIN jobs) < MaxPoolJobs
     /\ Launch("alice", << "read_idat_files" >>, {})
  \/ \E j \in DOMAIN jobs : JobStep(j)
  \/ WorkerPickup

SpecPool == Init /\ [][NextPool]_vars

\* The worker pool under fair scheduling: the event loop runs every coroutine
\* that is ready, a pool thread that is free takes queued work, and a pool
\* thread that runs a job goes on running it (every stage invocation
\* terminates). Clients are under no obligation to launch.
SpecPoolFair ==
  /\ Init
  /\ [][NextPool]_vars
  /\ \A j \in 1..MaxPoolJobs : WF_vars(j \in DOMAIN jobs /\ JobStep(j))
  /\ WF_vars(WorkerPickup)

\* One job and a client polling its status while it runs.
NextPoll ==
  \/ \E steps \in SeqsOf(LifecycleIds, 1, MaxLifecycleSteps) :
       /\ jobs = << >>
       /\ Launch("alice", steps, {})
  \/ \E j \in DOMAIN jobs : JobStep(j)
  \/ WorkerPickup
  \/ StatusQuery

SpecPoll == Init /\ [][NextPoll]_vars

\* One orchestrator run: a single launch with any stage list of up to MaxSteps
\* raw identifiers and either Column Mapping, and no queries.
RunIds == RawIds \ {"perform_pca", "create_heatmap", " Quality_Control "}

RunLists == SeqsOf(RunIds, 1, MaxSteps)

NextRun ==
  \/ \E steps \in RunLists, cm \in ColumnMappings :
       /\ jobs = << >>
       /\ Launch("alice", steps, cm)
  \/ \E j \in DOMAIN jobs : JobStep(j)
  \/ WorkerPickup

SpecRun == Init /\ [][NextRun]_vars

\* ------------------------------------------------------ moira/analysis.py
Min(a, b) == IF a <= b THEN a ELSE b

\* A non-negative rational num/den (den > 0), and the order of two of them
Ratio(num, den) == [num |-> num, den |-> den]

Leq(x, y) == x.num * y.den <= y.num * x.den

\* p-values are the multiples k/PScale of 1/PScale in [0,1]; a sequence of
\* p-values is kept as the sequence of the numerators k
PValues == 0..PScale

\* analysis.py:355  rankdata(p_values), method "average": a p-value's rank is
\* the mean of the positions its ties take in sorted order; twice that rank
TwiceRank(p_values, i) ==
  2 * Cardinality({ j \in 1..Len(p_values) : p_values[j] < p_values[i] })
    + Cardinality({ j \in 1..Len(p_values) : p_values[j] = p_values[i] }) + 1

\* Mutant of Adjusted: the cap at 1 is missing
AdjustedUncapped(p_values, i) ==
  Ratio(2 * p_values[i] * Len(p_values), PScale * TwiceRank(p_values, i))

\* analysis.py:354-356  np.minimum(p_values * n / ranks, 1.0), element i
Adjusted(p_values, i) ==
  LET raw == Ratio(2 * p_values[i] * Len(p_values), PScale * TwiceRank(p_values, i)) IN
  IF Leq(Ratio(1, 1), raw) THEN Ratio(1, 1) ELSE raw

\* analysis.py:353-356  the BH FDR correction of differential_analysis
Fdr(p_values) == [i \in 1..Len(p_values) |-> Adjusted(p_values, i)]

FdrCalls ==
  { [fn |-> "fdr", done |-> FALSE, p_values |-> pv, fdr |-> << >>] :
      pv \in SeqsOf(PValues, 1, MaxFdrProbes) }

BHCorrection ==
  /\ call.fn = "fdr"
  /\ ~call.done
  /\ call' = [call EXCEPT !.done = TRUE, !.fdr = Fdr(call.p_values)]
  /\ UNCHANGED << jobs, args, task, fut, queue, run, reader, response, summary >>

\* The FDR correction applied to every sequence of 1..MaxFdrProbes p-values
InitFdr ==
  /\ NoJobs
  /\ call \in FdrCalls

NextFdr == BHCorrection

SpecFdr == InitFdr /\ [][NextFdr]_vars

\* analysis.py:29  _DEFAULT_N_TOP_CPGS = 10_000
DefaultNTopCpgs == 10000

\* analysis.py:147  min(10, coords.shape[1])
MaxComponents == 10

\* n_top_cpgs as a caller may pass it: below and above the cap on components,
\* and the default the orchestrator runs with
NTopCpgs == {2, 11, DefaultNTopCpgs}

\* analysis.py:131-150  the shapes in perform_pca, for n_samples matched samples
\* of n_probes probes: actual_top = min(n_top_cpgs, len(probe_vars)); PCA()
\* keeps min(n_samples, n_features) components of the samples x features
\* matrix m_scaled, so that many columns has coords; n_components =
\* min(10, coords.shape[1]). The scatter plots read PC2 and evr[1] (analysis.py
\* 166-170), which raises when there is one component only.
PerformPcaShapes(n_top_cpgs, n_probes, n_samples) ==
  LET actual_top == Min(n_top_cpgs, n_probes)
      coords_columns == Min(n_samples, actual_top)
      n_components == Min(MaxComponents, coords_columns) IN
  [actual_top |-> actual_top, n_components |-> n_components,
   raised |-> n_components < 2]

\* perform_pca has not returned yet
NoShapes == [actual_top |-> 0, n_components |-> 0, raised |-> FALSE]

PcaCalls ==
  { [fn |-> "perform_pca", done |-> FALSE, n_top_cpgs |-> t, n_probes |-> np,
     n_samples |-> ns, out |-> NoShapes] :
      t \in NTopCpgs, np \in 1..MaxPcaProbes, ns \in 1..MaxPcaSamples }

PerformPca ==
  /\ call.fn = "perform_pca"
  /\ ~call.done
  /\ call' = [call EXCEPT !.done = TRUE,
                          !.out = PerformPcaShapes(call.n_top_cpgs, call.n_probes,
                                                   call.n_samples)]
  /\ UNCHANGED << jobs, args, task, fut, queue, run, reader, response, summary >>

\* perform_pca applied to every shape of up to MaxPcaProbes x MaxPcaSamples
InitPca ==
  /\ NoJobs
  /\ call \in PcaCalls

NextPca == PerformPca

SpecPca == InitPca /\ [][NextPca]_vars

\* analysis.py:507-541  _select_group_column. The Sample Metadata Table is kept
\* as its columns in order (targets.columns), its row labels (targets.index)
\* and one value, or the missing value, per column and row.
MetaColumns == << "c1", "c2" >>

MetaColumnSet == { MetaColumns[i] : i \in 1..Len(MetaColumns) }

MetaRows == {"s1", "s2", "s3"}

NaN == "NaN"

GroupValues == {"A", "B"}

MetaTables == [MetaColumnSet -> [MetaRows -> GroupValues \cup {NaN}]]

\* The sample columns of the Beta Matrix: some of the table's rows, all of them,
\* or none of them
BetaColumnSets == { {"s1", "s2"}, {"s1", "s2", "s3"}, {"s9"} }

\* A Column Mapping as the dictionary it is: pairs in insertion order. A
\* concept maps to a column of the table, to a column the table does not have
\* ("zz"), or to null.
MappedBatch == {None, "c1", "c2"}

MappedGroup == {None, "c1", "c2", "zz"}

GroupMappings ==
  { << [key |-> "batch", val |-> b], [key |-> "genotype", val |-> g],
       [key |-> "tissue", val |-> t] >> :
      b \in MappedBatch, g \in MappedGroup, t \in MappedGroup }

\* analysis.py:517-522  [cm.get("genotype"), cm.get("tissue")] + list(cm.values())
Candidates(column_mappings) ==
  << Get(column_mappings, "genotype"), Get(column_mappings, "tissue") >>
    \o [i \in 1..Len(column_mappings) |-> column_mappings[i].val]

\* targets.index: the row labels of a table
Rows(targets) == DOMAIN targets[MetaColumns[1]]

\* analysis.py:525  common = [s for s in betas.columns if s in targets.index]
Common(betas_columns, targets) == betas_columns \cap Rows(targets)

\* Mutant of Unique: the values are taken over all rows of the table
UniqueOverAllRows(targets, common, col) ==
  { targets[col][s] : s \in Rows(targets) } \ {NaN}

\* analysis.py:531 and 537  targets.loc[common, col].dropna().unique()
Unique(targets, common, col) ==
  { targets[col][s] : s \in common } \ {NaN}

\* analysis.py:529-533 and 536-539  the first column of cols that is in the
\* table and has two values among the common samples, or None
RECURSIVE FirstTwoValued(_, _, _)
FirstTwoValued(cols, targets, common) ==
  IF Len(cols) = 0 THEN None
  ELSE IF /\ Head(cols) # None
          /\ Head(cols) \in MetaColumnSet
          /\ Cardinality(Unique(targets, common, Head(cols))) = 2
       THEN Head(cols)
       ELSE FirstTwoValued(Tail(cols), targets, common)

SelectGroupColumn(betas_columns, targets, column_mappings) ==
  LET common == Common(betas_columns, targets) IN
  IF common = {} THEN None
  ELSE LET mapped == FirstTwoValued(Candidates(column_mappings), targets, common) IN
       IF mapped # None THEN mapped
       ELSE FirstTwoValued(MetaColumns, targets, common)

SelectCalls ==
  { [fn |-> "select_group_column", done |-> FALSE, betas_columns |-> bc,
     targets |-> t, column_mappings |-> cm, out |-> None] :
      bc \in BetaColumnSets, t \in MetaTables, cm \in GroupMappings }

SelectGroup ==
  /\ call.fn = "select_group_column"
  /\ ~call.done
  /\ call' = [call EXCEPT !.done = TRUE,
                          !.out = SelectGroupColumn(call.betas_columns, call.targets,
                                                    call.column_mappings)]
  /\ UNCHANGED << jobs, args, task, fut, queue, run, reader, response, summary >>

\* _select_group_column applied to every table, matrix and mapping above
InitSelect ==
  /\ NoJobs
  /\ call \in SelectCalls

NextSelect == SelectGroup

SpecSelect == InitSelect /\ [][NextSelect]_vars

\* analysis.py:281-386  differential_analysis
\* analysis.py:285  fdr_threshold: float = 0.05
FdrThreshold == Ratio(5, 100)

\* analysis.py:286  top_n: int = 200
DefaultTopN == 200

\* The order of the sample columns of a Beta Matrix (betas.columns)
SampleOrder == << "s1", "s2", "s3", "s4", "s9" >>

\* The tables differential_analysis is called with: four rows, a column c1 of
\* group labels with missing values, and a column c2 with one label
DiffRows == {"s1", "s2", "s3", "s4"}

DiffTables ==
  { [c \in MetaColumnSet |-> IF c = "c1" THEN labels ELSE [s \in DiffRows |-> "A"]] :
      labels \in [DiffRows -> GroupValues \cup {NaN}] }

NoTargets == [present |-> FALSE, table |-> << >>]

Targets(table) == [present |-> TRUE, table |-> table]

DiffTargets == {NoTargets} \cup { Targets(t) : t \in DiffTables }

\* The matrices: all four samples of the table, three of them, and the four
\* with a sample the table does not have
DiffColumnSets ==
  { {"s1", "s2", "s3", "s4"}, {"s1", "s2", "s3"}, {"s1", "s2", "s3", "s4", "s9"} }

DiffMapping == << [key |-> "genotype", val |-> "c1"] >>

TopNs == {2, DefaultTopN}

\* A value that is not a number (0/0), and the order sort_values keeps: numbers
\* ascending, NaN last
NaNRatio == Ratio(0, 0)

IsNaN(x) == x.den = 0

SortsBefore(x, y) ==
  IF IsNaN(y) THEN TRUE ELSE IF IsNaN(x) THEN FALSE ELSE Leq(x, y)

\* analysis.py:336-340  groups.unique(): the labels of the common samples in
\* order of first appearance, a missing label being one of them
RECURSIVE UniqueInOrder(_, _, _, _)
UniqueInOrder(order, common, labels, seen) ==
  IF Len(order) = 0 THEN seen
  ELSE LET s == Head(order)
           next == IF s \in common /\ \A i \in 1..Len(seen) : seen[i] # labels[s]
                   THEN Append(seen, labels[s]) ELSE seen IN
       UniqueInOrder(Tail(order), common, labels, next)

\* analysis.py:343-344  groups[groups == g].index: a missing label equals nothing
GroupSamples(common, labels, g) ==
  { s \in common : labels[s] # NaN /\ labels[s] = g }

\* analysis.py:351  stats.ttest_ind(g1_m, g2_m, equal_var=False): one p-value
\* per probe (whatever the data give), NaN for every probe when a group has
\* fewer than two samples and so no variance
TTest(p_values, n1, n2) ==
  [i \in 1..Len(p_values) |->
     IF n1 < 2 \/ n2 < 2 THEN NaNRatio ELSE Ratio(p_values[i], PScale)]

\* analysis.py:353-356 on the p-values of the test: NaN stays NaN
FdrOf(p_values, n1, n2) ==
  [i \in 1..Len(p_values) |->
     IF n1 < 2 \/ n2 < 2 THEN NaNRatio ELSE Adjusted(p_values, i)]

ProbeOrders(n) ==
  { f \in [1..n -> 1..n] : \A a, b \in 1..n : f[a] = f[b] => a = b }

\* Mutant of SortedOrders: the rows are left in probe order
UnsortedOrders(fdr) == { [i \in 1..Len(fdr) |-> i] }

\* analysis.py:369  sort_values("fdr") (quicksort: ties in any order): the
\* orders of the probes the sorted frame may have
SortedOrders(fdr) ==
  { f \in ProbeOrders(Len(fdr)) :
      \A a, b \in 1..Len(fdr) : a < b => SortsBefore(fdr[f[a]], fdr[f[b]]) }

ErrorPayload(msg) ==
  [kind |-> "error", error |-> msg, group_column |-> None, groups |-> << >>,
   group_sizes |-> << >>, n_probes_tested |-> 0, n_significant_dmps |-> 0,
   top_dmps |-> << >>]

\* Mutant of DifferentialAnalysisPayloads: the test is run on any number of
\* matched samples
DifferentialAnalysisPayloadsAnyCount(betas_columns, targets, column_mappings, p_values, top_n) ==
  IF ~targets.present
  THEN {ErrorPayload("No targets (samplesheet) provided.")}
  ELSE
  LET group_col == SelectGroupColumn(betas_columns, targets.table, column_mappings)
      common == Common(betas_columns, targets.table) IN
  IF group_col = None
  THEN {ErrorPayload("Could not find a suitable two-group column in targets.")}
  ELSE
  LET labels == targets.table[group_col]
      unique_groups == UniqueInOrder(SampleOrder, common, labels, << >>) IN
  IF Len(unique_groups) # 2
  THEN {ErrorPayload("exactly 2 are required.")}
  ELSE
  LET n1 == Cardinality(GroupSamples(common, labels, unique_groups[1]))
      n2 == Cardinality(GroupSamples(common, labels, unique_groups[2]))
      p == TTest(p_values, n1, n2)
      fdr == FdrOf(p_values, n1, n2) IN
  { [kind |-> "ok", error |-> None, group_column |-> group_col,
     groups |-> unique_groups, group_sizes |-> << n1, n2 >>,
     n_probes_tested |-> Len(fdr),
     n_significant_dmps |->
       Cardinality({ i \in 1..Len(fdr) :
                       ~IsNaN(fdr[i]) /\ ~Leq(FdrThreshold, fdr[i]) }),
     top_dmps |-> [k \in 1..Min(top_n, Len(fdr)) |->
                     [probe |-> order[k], p_value |-> p[order[k]],
                      fdr |-> fdr[order[k]]]]] :
      order \in SortedOrders(fdr) }

\* analysis.py:305-386  the payloads differential_analysis may return
DifferentialAnalysisPayloads(betas_columns, targets, column_mappings, p_values, top_n) ==
  IF ~targets.present
  THEN {ErrorPayload("No targets (samplesheet) provided.")}
  ELSE
  LET group_col == SelectGroupColumn(betas_columns, targets.table, column_mappings)
      common == Common(betas_columns, targets.table) IN
  IF group_col = None
  THEN {ErrorPayload("Could not find a suitable two-group column in targets.")}
  ELSE IF Cardinality(common) < 4
  THEN {ErrorPayload("Too few matched samples for differential analysis.")}
  ELSE
  LET labels == targets.table[group_col]
      unique_groups == UniqueInOrder(SampleOrder, common, labels, << >>) IN
  IF Len(unique_groups) # 2
  THEN {ErrorPayload("exactly 2 are required.")}
  ELSE
  LET n1 == Cardinality(GroupSamples(common, labels, unique_groups[1]))
      n2 == Cardinality(GroupSamples(common, labels, unique_groups[2]))
      p == TTest(p_values, n1, n2)
      fdr == FdrOf(p_values, n1, n2) IN
  { [kind |-> "ok", error |-> None, group_column |-> group_col,
     groups |-> unique_groups, group_sizes |-> << n1, n2 >>,
     n_probes_tested |-> Len(fdr),
     n_significant_dmps |->
       Cardinality({ i \in 1..Len(fdr) :
                       ~IsNaN(fdr[i]) /\ ~Leq(FdrThreshold, fdr[i]) }),
     top_dmps |-> [k \in 1..Min(top_n, Len(fdr)) |->
                     [probe |-> order[k], p_value |-> p[order[k]],
                      fdr |-> fdr[order[k]]]]] :
      order \in SortedOrders(fdr) }

DiffCalls ==
  { [fn |-> "differential_analysis", done |-> FALSE, betas_columns |-> bc,
     targets |-> t, column_mappings |-> DiffMapping, p_values |-> pv,
     top_n |-> n, out |-> ErrorPayload(None)] :
      bc \in DiffColumnSets, t \in DiffTargets,
      pv \in SeqsOf(PValues, 1, MaxFdrProbes), n \in TopNs }

DifferentialCall ==
  /\ call.fn = "differential_analysis"
  /\ ~call.done
  /\ \E payload \in DifferentialAnalysisPayloads(call.betas_columns, call.targets,
                         call.column_mappings, call.p_values, call.top_n) :
       call' = [call EXCEPT !.done = TRUE, !.out = payload]
  /\ UNCHANGED << jobs, args, task, fut, queue, run, reader, response, summary >>

InitDiff ==
  /\ NoJobs
  /\ call \in DiffCalls

NextDiff == DifferentialCall

SpecDiff == InitDiff /\ [][NextDiff]_vars

\* analysis.py:225-275  create_heatmap. The Beta Matrix is kept as its shape,
\* n_probes rows by n_samples columns.
MaxHeatmapProbes == 8

MaxHeatmapSamples == 8

\* np.triu_indices_from(m, k=1): the cells above the diagonal of an n x n matrix
UpperCells(n) == (n * (n - 1)) \div 2

\* betas.T has the samples as rows and the probes as columns, and
\* DataFrame.corr correlates the columns of its frame with one another: the
\* result is indexed by probe on both axes. A correlation over fewer than two
\* observations (rows of betas.T, the samples) is NaN.
Corr(n_probes, n_samples) ==
  [ index |-> "probes", size |-> n_probes,
    cells |-> IF n_samples < 2 THEN "nan" ELSE "number" ]

\* float(upper.mean()) if len(upper) else 0.0, and the same for min and max
UpperStat(corr) ==
  IF UpperCells(corr.size) = 0 THEN "zero" ELSE corr.cells

NoHeatmap ==
  [ raised |-> FALSE, corr_index |-> None, corr_size |-> 0, n_upper |-> 0,
    n_samples |-> 0, mean_pairwise_correlation |-> None,
    min_pairwise_correlation |-> None, max_pairwise_correlation |-> None ]

\* The payloads a call can end with. Drawing a matrix with no finite cell is
\* left to the plotting library, which may draw it or raise.
CreateHeatmapPayloads(n_probes, n_samples) ==
  LET corr == Corr(n_probes, n_samples)
      returned ==
        [ raised |-> FALSE, corr_index |-> corr.index, corr_size |-> corr.size,
          n_upper |-> UpperCells(corr.size), n_samples |-> n_samples,
          mean_pairwise_correlation |-> UpperStat(corr),
          min_pairwise_correlation |-> UpperStat(corr),
          max_pairwise_correlation |-> UpperStat(corr) ]
  IN  IF corr.size = 0 \/ corr.cells = "nan"
      THEN { returned, [NoHeatmap EXCEPT !.raised = TRUE] }
      ELSE { returned }

HeatmapCalls ==
  { [fn |-> "create_heatmap", done |-> FALSE, n_probes |-> np, n_samples |-> ns,
     out |-> NoHeatmap] :
      np \in 0..MaxHeatmapProbes, ns \in 0..MaxHeatmapSamples }

CreateHeatmap ==
  /\ call.fn = "create_heatmap"
  /\ ~call.done
  /\ \E payload \in CreateHeatmapPayloads(call.n_probes, call.n_samples) :
       call' = [call EXCEPT !.done = TRUE, !.out = payload]
  /\ UNCHANGED << jobs, args, task, fut, queue, run, reader, response, summary >>

\* create_heatmap applied to every shape of up to MaxHeatmapProbes x
\* MaxHeatmapSamples
InitHeatmap ==
  /\ NoJobs
  /\ call \in HeatmapCalls

NextHeatmap == CreateHeatmap

SpecHeatmap == InitHeatmap /\ [][NextHeatmap]_vars

\* preprocessing.py:405-413  the transform pair of combat_normalization. Beta
\* values are the multiples k/BetaScale of 1/BetaScale in [0,1]; an M-value is
\* kept as the odds it is the base-2 logarithm of.
BetaScale == 2000

BetaValues == { Ratio(k, BetaScale) : k \in 0..BetaScale }

\* preprocessing.py:406  np.clip(betas, 0.001, 0.999)
ClipLow == Ratio(1, 1000)

ClipHigh == Ratio(999, 1000)

\* np.clip(x, lo, hi)
Clip(x, lo, hi) == IF Leq(x, lo) THEN lo ELSE IF Leq(hi, x) THEN hi ELSE x

\* np.log2(odds) and 2**m
Log2(odds) == [log2 |-> odds]

Exp2(m) == m.log2

BetaToMValues(betas) ==
  LET clipped == Clip(betas, ClipLow, ClipHigh)
  IN  Log2(Ratio(clipped.num, clipped.den - clipped.num))

\* 2**m without the division by 1 + 2**m
MValuesToBetaOdds(m_values) ==
  LET p == Exp2(m_values)
  IN  Clip(p, Ratio(0, 1), Ratio(1, 1))

MValuesToBeta(m_values) ==
  LET p == Exp2(m_values)
      betas == Ratio(p.num, p.den + p.num)
  IN  Clip(betas, Ratio(0, 1), Ratio(1, 1))

NoValue == [present |-> FALSE]

Value(x) == [present |-> TRUE, v |-> x]

BetaCalls ==
  { [fn |-> "beta_m_beta", done |-> FALSE, betas |-> b, m_values |-> NoValue,
     out |-> NoValue] : b \in BetaValues }

\* preprocessing.py:362
BetaToMCall ==
  /\ call.fn = "beta_m_beta"
  /\ ~call.m_values.present
  /\ call' = [call EXCEPT !.m_values = Value(BetaToMValues(call.betas))]
  /\ UNCHANGED << jobs, args, task, fut, queue, run, reader, response, summary >>

\* preprocessing.py:384, applied to the M-value as converted (the identity
\* batch adjustment)
MToBetaCall ==
  /\ call.fn = "beta_m_beta"
  /\ call.m_values.present
  /\ ~call.done
  /\ call' = [call EXCEPT !.done = TRUE,
                          !.out = Value(MValuesToBeta(call.m_values.v))]
  /\ UNCHANGED << jobs, args, task, fut, queue, run, reader, response, summary >>

InitBeta ==
  /\ NoJobs
  /\ call \in BetaCalls

NextBeta == BetaToMCall \/ MToBetaCall

SpecBeta == InitBeta /\ [][NextBeta]_vars

\* core.py:123-174  MoIRAAIAssistant._make_request, one step per attempt, per
\* wait and for the final raise.
\* core.py:123  max_retries: int = 3
MaxRetries == 3

\* What one requests.post can end with: a 200 whose message carries text in
\* content, a 200 whose content is null and whose text is in
\* reasoning_content, a 200 whose text is empty or blank, a 200 carrying an
\* "error" member, another status code, or an exception.
Outcomes ==
  {"content", "reasoning_content", "blank", "model_error", "http_error",
   "exception"}

\* core.py:146-153  `return content` is reached on any 200 without "error"
ReturnsContentBlank(outcome) ==
  outcome \in {"content", "reasoning_content", "blank"}

\* core.py:146-153  content = msg.get("content") or
\* msg.get("reasoning_content") or ""; returned unless content.strip() is empty
ReturnsContent(outcome) == outcome \in {"content", "reasoning_content"}

\* core.py:142, 150, 159-164, 167  last_error of a failed attempt
LastError(outcome, attempt) ==
  [ text |-> CASE outcome = "model_error" -> "OpenRouter model error"
               [] outcome = "blank" -> "Model returned empty content"
               [] outcome = "http_error" -> "OpenRouter status"
               [] OTHER -> "exception",
    attempt |-> attempt ]

UnknownError == [text |-> "Unknown error", attempt |-> None]

AiCall ==
  [ fn |-> "make_request", done |-> FALSE, pc |-> "request", attempt |-> 0,
    last_error |-> UnknownError, log |-> << >>, out |-> NoValue ]

\* core.py:136-171
Request ==
  /\ call.fn = "make_request"
  /\ call.pc = "request"
  /\ \E outcome \in Outcomes :
       LET logged == Append(call.log, [kind |-> "request",
                                       attempt |-> call.attempt,
                                       outcome |-> outcome])
       IN  IF ReturnsContent(outcome)
           THEN call' = [call EXCEPT !.done = TRUE, !.pc = "returned",
                                     !.log = logged,
                                     !.out = Value([raised |-> FALSE,
                                                    content |-> outcome,
                                                    attempt |-> call.attempt])]
           ELSE call' = [call EXCEPT
                           !.log = logged,
                           !.last_error = LastError(outcome, call.attempt),
                           !.pc = IF call.attempt < MaxRetries - 1
                                  THEN "sleep" ELSE "raise"]
  /\ UNCHANGED << jobs, args, task, fut, queue, run, reader, response, summary >>

\* core.py:172-173  time.sleep(2**attempt), then the next attempt
Sleep ==
  /\ call.fn = "make_request"
  /\ call.pc = "sleep"
  /\ call' = [call EXCEPT
                !.log = Append(call.log, [kind |-> "sleep",
                                          attempt |-> call.attempt,
                                          seconds |-> 2 ^ call.attempt]),
                !.attempt = call.attempt + 1,
                !.pc = "request"]
  /\ UNCHANGED << jobs, args, task, fut, queue, run, reader, response, summary >>

\* core.py:174
RaiseRuntimeError ==
  /\ call.fn = "make_request"
  /\ call.pc = "raise"
  /\ call' = [call EXCEPT !.done = TRUE, !.pc = "raised",
                          !.out = Value([raised |-> TRUE,
                                         attempts |-> MaxRetries,
                                         last_error |-> call.last_error])]
  /\ UNCHANGED << jobs, args, task, fut, queue, run, reader, response, summary >>

InitAi ==
  /\ NoJobs
  /\ call = AiCall

NextAi == Request \/ Sleep \/ RaiseRuntimeError

SpecAi == InitAi /\ [][NextAi]_vars

\* analysis.py:89-128 and 487-504  the matching of samples to metadata rows in
\* perform_pca. A Sample Metadata Table is kept as its rows in order
\* (TargetIndex gives the order of targets.index) with one column, c1, of
\* text; Contains is Python's substring test on the texts of the model.
PcaSampleIds == {"s1", "s2", "s3"}

TargetIndex == << "s1", "plate_s2", "r3" >>

TargetIndexSet == { TargetIndex[i] : i \in 1..Len(TargetIndex) }

CellValues == {"s3_rep", "liver"}

Contains(text, sample_name) ==
  \/ text = sample_name
  \/ text = "plate_s2" /\ sample_name = "s2"
  \/ text = "s3_rep" /\ sample_name = "s3"

PcaTargets ==
  {NoTargets} \cup
  { Targets(t) : t \in UNION { [rows -> CellValues] : rows \in SUBSET TargetIndexSet } }

\* column_mappings.get("tissue"), .get("batch"), .get("genotype"): unmapped, the
\* column of the table, or a column the table does not have
PcaMappings == [{"tissue", "batch", "genotype"} -> {None, "c1", "zz"}]

\* The first row, in the order of the index, that satisfies Test
FirstRow(table, Test(_)) ==
  LET hits == { i \in 1..Len(TargetIndex) :
                  TargetIndex[i] \in DOMAIN table /\ Test(TargetIndex[i]) }
  IN  IF hits = {} THEN None
      ELSE TargetIndex[CHOOSE i \in hits : \A k \in hits : i <= k]

\* analysis.py:487-504  _find_target_row: the row label found, or None
FindTargetRow(sample_name, targets) ==
  IF ~targets.present THEN None
  ELSE LET table == targets.table
           Exact(row) == row = sample_name
           Partial(row) == Contains(row, sample_name)
           Scan(row) == Contains(table[row], sample_name) IN
       IF FirstRow(table, Exact) # None THEN FirstRow(table, Exact)
       ELSE IF FirstRow(table, Partial) # None THEN FirstRow(table, Partial)
       ELSE FirstRow(table, Scan)

\* analysis.py:104-118  str(target_row[key]) if key and key in target_row.index
\* else "Unknown"
GroupLabel(targets, row, key) ==
  IF key = "c1" THEN targets.table[row] ELSE "Unknown"

NoPcaData == [raised |-> FALSE, pca_data |-> << >>]

\* analysis.py:89-128 and 148-155  the rows of pca_data, one per sample of
\* matched (pca_df is indexed by matched): a sample without a row is left out,
\* unless no sample has one, and then all go in as "Unknown". The plots need a
\* second component (PerformPcaShapes).
PerformPcaMatching(betas_columns, targets, column_mappings) ==
  LET found == { s \in betas_columns : FindTargetRow(s, targets) # None }
      matched == IF found = {} THEN betas_columns ELSE found
      Label(s, concept) ==
        IF found = {} THEN "Unknown"
        ELSE GroupLabel(targets, FindTargetRow(s, targets), column_mappings[concept])
  IN  IF PerformPcaShapes(DefaultNTopCpgs, MaxPcaProbes, Cardinality(matched)).raised
      THEN [NoPcaData EXCEPT !.raised = TRUE]
      ELSE [ raised |-> FALSE,
             pca_data |-> [ s \in matched |->
                              [ Tissue |-> Label(s, "tissue"),
                                Batch |-> Label(s, "batch"),
                                Genotype |-> Label(s, "genotype") ] ] ]

PcaMatchCalls ==
  { [fn |-> "perform_pca_matching", done |-> FALSE, betas_columns |-> bc,
     targets |-> t, column_mappings |-> cm, out |-> NoPcaData] :
      bc \in (SUBSET PcaSampleIds) \ {{}}, t \in PcaTargets, cm \in PcaMappings }

PerformPcaMatch ==
  /\ call.fn = "perform_pca_matching"
  /\ ~call.done
  /\ call' = [call EXCEPT !.done = TRUE,
                          !.out = PerformPcaMatching(call.betas_columns, call.targets,
                                                     call.column_mappings)]
  /\ UNCHANGED << jobs, args, task, fut, queue, run, reader, response, summary >>

InitPcaMatch ==
  /\ NoJobs
  /\ call \in PcaMatchCalls

NextPcaMatch == PerformPcaMatch

SpecPcaMatch == InitPcaMatch /\ [][NextPcaMatch]_vars

\* analysis.py:392-484  create_volcano_plot, and core.py:459-471, the branch of
\* the orchestrator that calls it and stores what it returns.
\* analysis.py:399-400  fc_threshold: float = 1.0, fdr_threshold: float = 0.05
FcThreshold == Ratio(1, 1)

VolcanoFdrThreshold == Ratio(5, 100)

MaxVolcanoRows == 2

\* The rows of top_dmps: an FDR below, at and above the threshold or not a
\* number, and a fold change (negative or positive) below, at and above the
\* threshold in magnitude; a fold change that is not a number comes with an
\* FDR that is not a number (no test statistic without group means)
VolcanoFdrs == {Ratio(1, 100), Ratio(5, 100), Ratio(1, 2), NaNRatio}

VolcanoFcs == {Ratio(0 - 3, 2), Ratio(1, 2), Ratio(0 - 1, 1), NaNRatio}

VolcanoRows ==
  { [fdr |-> f, log2_fc |-> c] : f \in VolcanoFdrs, c \in VolcanoFcs } \
  { [fdr |-> f, log2_fc |-> NaNRatio] : f \in VolcanoFdrs \ {NaNRatio} }

\* The payloads of differential_analysis the volcano stage may be given
OkPayload(top_dmps) ==
  [ErrorPayload(None) EXCEPT !.kind = "ok", !.top_dmps = top_dmps]

DiffPayloads ==
  { ErrorPayload("Too few matched samples for differential analysis."),
    ErrorPayload("differential_analysis requires beta values.") } \cup
  { OkPayload(rows) : rows \in SeqsOf(VolcanoRows, 0, MaxVolcanoRows) }

\* Comparisons of floats: every comparison with a value that is not a number
\* is false
Abs(x) == IF x.num < 0 THEN Ratio(0 - x.num, x.den) ELSE x

Lt(x, y) == ~IsNaN(x) /\ ~IsNaN(y) /\ x.num * y.den < y.num * x.den

Geq(x, y) == ~IsNaN(x) /\ ~IsNaN(y) /\ x.num * y.den >= y.num * x.den

\* Mutant of Colour: the fold change is compared without its sign removed
ColourSigned(row) ==
  IF Lt(row.fdr, VolcanoFdrThreshold) /\ Geq(row.log2_fc, FcThreshold)
  THEN "#E8433A"
  ELSE IF Lt(row.fdr, VolcanoFdrThreshold) THEN "#2560E0"
  ELSE "#AAAAAA"

\* analysis.py:423-428  _colour
Colour(row) ==
  IF Lt(row.fdr, VolcanoFdrThreshold) /\ Geq(Abs(row.log2_fc), FcThreshold)
  THEN "#E8433A"
  ELSE IF Lt(row.fdr, VolcanoFdrThreshold) THEN "#2560E0"
  ELSE "#AAAAAA"

NoCount == [present |-> FALSE, n |-> 0]

VolcanoError(msg) ==
  [kind |-> "error", error |-> msg, colours |-> << >>,
   n_highlighted_dmps |-> NoCount, plots |-> {}]

\* analysis.py:414-415  `return diff_results`: the payload given, as it is
ReturnedAsIs(payload) == VolcanoError(payload.error)

\* Mutant of CreateVolcanoPlotPayload: an error payload is not looked for, and
\* the missing list of probes is reported instead
CreateVolcanoPlotPayloadNoErrorCheck(diff_results, inline) ==
  LET used == IF diff_results.present THEN diff_results.v ELSE inline IN
  IF used.top_dmps = << >>
  THEN VolcanoError("No DMPs available for volcano plot.")
  ELSE LET colours == [k \in 1..Len(used.top_dmps) |-> Colour(used.top_dmps[k])] IN
       [kind |-> "ok", error |-> None, colours |-> colours,
        n_highlighted_dmps |->
          [present |-> TRUE,
           n |-> Cardinality({ k \in 1..Len(colours) : colours[k] = "#E8433A" })],
        plots |-> {"volcano"}]

\* analysis.py:409-484  what create_volcano_plot returns: diff_results is the
\* entry it was handed, if any, and inline what differential_analysis returns
\* on the current state
CreateVolcanoPlotPayload(diff_results, inline) ==
  LET used == IF diff_results.present THEN diff_results.v ELSE inline IN
  IF used.kind = "error"
  THEN ReturnedAsIs(used)
  ELSE IF used.top_dmps = << >>
  THEN VolcanoError("No DMPs available for volcano plot.")
  ELSE LET colours == [k \in 1..Len(used.top_dmps) |-> Colour(used.top_dmps[k])] IN
       [kind |-> "ok", error |-> None, colours |-> colours,
        n_highlighted_dmps |->
          [present |-> TRUE,
           n |-> Cardinality({ k \in 1..Len(colours) : colours[k] = "#E8433A" })],
        plots |-> {"volcano"}]

\* core.py:466-471  the ledger entry: the payload without its plots, and the
\* plot files listed
LedgerEntry(res) ==
  [kind |-> res.kind, error |-> res.error,
   n_highlighted_dmps |-> res.n_highlighted_dmps, plot_files |-> res.plots]

NoVolcano == [res |-> VolcanoError(None), entry |-> LedgerEntry(VolcanoError(None))]

VolcanoCalls ==
  { [fn |-> "create_volcano_plot", done |-> FALSE, diff_results |-> Value(d),
     inline |-> ErrorPayload(None), out |-> NoVolcano] : d \in DiffPayloads } \cup
  { [fn |-> "create_volcano_plot", done |-> FALSE, diff_results |-> NoValue,
     inline |-> d, out |-> NoVolcano] : d \in DiffPayloads }

CreateVolcanoPlotCall ==
  /\ call.fn = "create_volcano_plot"
  /\ ~call.done
  /\ LET res == CreateVolcanoPlotPayload(call.diff_results, call.inline) IN
       call' = [call EXCEPT !.done = TRUE,
                            !.out = [res |-> res, entry |-> LedgerEntry(res)]]
  /\ UNCHANGED << jobs, args, task, fut, queue, run, reader, response, summary >>

InitVolcano ==
  /\ NoJobs
  /\ call \in VolcanoCalls

NextVolcano == CreateVolcanoPlotCall

SpecVolcano == InitVolcano /\ [][NextVolcano]_vars

\* ================================================================ claims

\* C1: whatever a concurrent query may observe, a Job Record's result is present
\* if and only if its status is completed, and its error is present if and only
\* if its status is failed.
C1_ResultIffCompleted ==
  \A j \in DOMAIN jobs :
    /\ jobs[j].result.present <=> jobs[j].status = "completed"
    /\ jobs[j].error # None <=> jobs[j].status = "failed"

\* C2: a Job Record's status changes only pending -> running, running ->
\* completed or running -> failed; completed and failed are never left.
C2_StatusTransitions ==
  [][\A j \in DOMAIN jobs :
       jobs'[j].status # jobs[j].status =>
         << jobs[j].status, jobs'[j].status >> \in
           { << "pending", "running" >>, << "running", "completed" >>,
             << "running", "failed" >> }]_vars

C2_Witness ==
  \E j, k \in DOMAIN jobs :
    jobs[j].status = "completed" /\ jobs[k].status = "failed"

\* C3: a result query answered with success was made on a completed job and
\* carries the ledger that job's orchestrator run returned; one answered with
\* the state error names the status read and carries no ledger.
C3_ResultQuery ==
  response.op = "result" =>
    /\ response.code = 200 =>
         /\ jobs[response.job_id].status = "completed"
         /\ fut[response.job_id].state = "result"
         /\ response.result = Result(fut[response.job_id].value)
    /\ response.code = 400 =>
         /\ response.detail \in {"pending", "running", "failed"}
         /\ response.result = NoResult

\* C4: a status or result query for an unknown job is answered not-found; for a
\* job of another identity it is answered forbidden, and that answer is a
\* function of the query alone: it holds none of the record's fields.
C4_QueryRefusals ==
  response.op \in {"status", "result"} =>
    /\ response.job_id \notin DOMAIN jobs =>
         response = [NoResponse EXCEPT !.op = response.op,
                                       !.caller = response.caller,
                                       !.job_id = response.job_id,
                                       !.code = 404, !.detail = "Job not found."]
    /\ ( /\ response.job_id \in DOMAIN jobs
         /\ jobs[response.job_id].user_id # response.caller ) =>
         response = [NoResponse EXCEPT !.op = response.op,
                                       !.caller = response.caller,
                                       !.job_id = response.job_id,
                                       !.code = 403, !.detail = "Forbidden."]

\* a forbidden answer about a job that is completed and holds its ledger
C4_Witness ==
  /\ response.op = "result"
  /\ response.code = 403
  /\ jobs[response.job_id].result.present

\* C5: a launch with a non-empty stage list adds exactly one Job Record, under
\* an identifier no record had, pending, index 0, total the length of the list,
\* no result, no error, owned by the caller; the response names it as pending
\* and is sent while the run is neither started nor handed to a worker. No
\* other step adds a record.
C5_Launch ==
  [][ /\ (response'.op = "run" /\ response'.code = 200)
           <=> DOMAIN jobs' # DOMAIN jobs
      /\ DOMAIN jobs' # DOMAIN jobs =>
           \E id \in DOMAIN jobs' :
             /\ id \notin DOMAIN jobs
             /\ DOMAIN jobs' = DOMAIN jobs \cup {id}
             /\ \A j \in DOMAIN jobs : jobs'[j] = jobs[j]
             /\ args'[id].steps # << >>
             /\ jobs'[id] = [status |-> "pending", step |-> None, step_idx |-> 0,
                             total_steps |-> Len(args'[id].steps),
                             result |-> NoResult, error |-> None,
                             user_id |-> response'.caller,
                             created_at |-> Cardinality(DOMAIN jobs)]
             /\ response'.job_id = id
             /\ response'.status = "pending"
             /\ task'[id] = "queued"
             /\ run'[id].pc = "idle"
             /\ \A i \in 1..Len(queue') : queue'[i] # id ]_vars

\* a second job launched with a two-stage list while the first is running
C5_Witness ==
  /\ response.op = "run"
  /\ response.code = 200
  /\ response.job_id = 2
  /\ jobs[2].total_steps = 2
  /\ jobs[1].status = "running"

\* C6: at most MaxWorkers runs execute at a time, and a run that waits in the
\* executor's queue has not started: no stage of it has run and no progress of
\* it has been reported.
C6_BoundedPool ==
  /\ Cardinality(Active) <= MaxWorkers
  /\ \A i \in 1..Len(queue) :
       /\ run[queue[i]].pc = "idle"
       /\ fut[queue[i]].state = "pending"
       /\ jobs[queue[i]].step = None
       /\ jobs[queue[i]].step_idx = 0

\* both pool threads are busy and a third run waits
C6_Witness ==
  /\ Cardinality(Active) = MaxWorkers
  /\ queue # << >>

\* The requested list as the orchestrator reads it
Requested(j) == [i \in 1..Len(args[j].steps) |-> Normalize(args[j].steps[i])]

\* C7: the progress callback is called once per requested identifier, in the
\* order of the request, with the stage name, the 1-based position and the
\* length of the request, and the stage of a position runs after its callback
\* and before the next position's.
C7_OrderedStages ==
  \A j \in DOMAIN run :
    LET n == Len(args[j].steps)
        plog == run[j].plog
        hlog == run[j].hlog IN
    /\ Len(plog) <= n
    /\ \A i \in 1..Len(plog) : plog[i] = << Requested(j)[i], i, n >>
    /\ Len(hlog) <= Len(plog)
    /\ Len(plog) <= Len(hlog) + 1
    /\ \A i \in 1..Len(hlog) : hlog[i].idx = i /\ hlog[i].step = Requested(j)[i]
    /\ run[j].pc = "stage" => Len(plog) = Len(hlog) + 1
    /\ run[j].pc = "summary" => Len(plog) = n /\ Len(hlog) = n

\* a run of three identifiers, one in another spelling and one unknown, at its end
C7_Witness ==
  \E j \in DOMAIN run :
    /\ run[j].pc = "summary"
    /\ args[j].steps = << "READ_IDAT_FILES", "plot_everything", "basic_statistics" >>
    /\ Len(run[j].plog) = 3

\* C8: a stage that raises leaves an error entry under its key and the loop
\* goes on: the run reaches its end only after every requested identifier has
\* been attempted, and no stage failure ends the call.
C8_FailureIsolation ==
  \A j \in DOMAIN run :
    LET n == Len(args[j].steps)
        hlog == run[j].hlog IN
    /\ \A i \in 1..Len(hlog) : hlog[i].raised => hlog[i].entry = "error"
    /\ run[j].pc \in {"step", "step_idx", "total_steps", "stage"} =>
         /\ run[j].idx = Len(hlog) + 1
         /\ run[j].idx <= n
    /\ run[j].pc = "summary" => Len(hlog) = n
    /\ fut[j].state = "exception" =>
         fut[j].exc \in {"samplesheet not loaded", "summary not written"}

\* the first of three stages raised and the run attempted the other two
C8_Witness ==
  \E j \in DOMAIN run :
    /\ run[j].pc = "summary"
    /\ Len(run[j].hlog) = 3
    /\ run[j].hlog[1].raised
    /\ run[j].hlog[1].step = "read_idat_files"
    /\ ~run[j].hlog[3].raised

\* The Pipeline State fields a stage assigns when it succeeds (core.py:365-367,
\* 379, 401) and those its precondition asks for (core.py:374, 387-391, 409,
\* 415, 432, 447, 457)
Populates(step) ==
  CASE step = "read_idat_files"      -> {"betas", "detP", "targets"}
    [] step = "quality_control"      -> {"betas"}
    [] step = "combat_normalization" -> {"betas"}
    [] OTHER                         -> {}

Needs(step) ==
  CASE step = "quality_control"      -> {"betas", "detP"}
    [] step = "combat_normalization" -> {"betas", "targets"}
    [] step \in {"basic_statistics", "perform_pca", "create_heatmap",
                 "differential_analysis", "create_volcano_plot"} -> {"betas"}
    [] OTHER                         -> {}

FieldPresent(st, f) ==
  CASE f = "betas"   -> st.betas.present
    [] f = "detP"    -> st.detP.present
    [] f = "targets" -> st.targets # None

PreconditionMet(step, st) == \A f \in Needs(step) : FieldPresent(st, f)

\* C9 as claimed: at the end of the run, whenever a stage A failed and a stage B
\* requested later needs a field A would have populated, B's entry is an error.
C9_CascadeToDependents ==
  \A j \in DOMAIN run :
    run[j].pc = "summary" =>
      \A a, b \in 1..Len(run[j].hlog) :
        ( /\ a < b
          /\ run[j].hlog[a].raised
          /\ Needs(run[j].hlog[b].step) \cap Populates(run[j].hlog[a].step) # {} )
        => Get(run[j].st.results, run[j].hlog[b].step) = "error"

\* C9 as amended: a stage attempted while a field its precondition needs is
\* absent raises and is recorded as an error, which is its ledger entry at the
\* end of the run unless it is attempted again; and a job fails only when the
\* orchestrator could not start or the summary could not be written, never
\* because stages failed.
C9_AbsentFieldCascades ==
  \A j \in DOMAIN run :
    LET hlog == run[j].hlog IN
    /\ \A b \in 1..Len(hlog) :
         ~PreconditionMet(hlog[b].step, hlog[b].before) =>
           /\ hlog[b].raised
           /\ hlog[b].entry = "error"
           /\ ( /\ run[j].pc = "summary"
                /\ \A c \in (b + 1)..Len(hlog) : hlog[c].step # hlog[b].step )
              => Get(run[j].st.results, hlog[b].step) = "error"
    /\ jobs[j].status = "failed" =>
         fut[j].exc \in {"samplesheet not loaded", "summary not written"}
    /\ jobs[j].status = "completed" => fut[j].state = "result"

\* a completed job whose ledger holds the cascade: read_idat_files raised and
\* quality_control, requested after it, is an error too
C9_Witness ==
  \E j \in DOMAIN jobs :
    /\ jobs[j].status = "completed"
    /\ jobs[j].result.present
    /\ args[j].steps = << "read_idat_files", "quality_control" >>
    /\ Get(jobs[j].result.ledger, "read_idat_files") = "error"
    /\ Get(jobs[j].result.ledger, "quality_control") = "error"

RECURSIVE IsSubsequence(_, _)
IsSubsequence(a, b) ==
  IF Len(a) = 0 THEN TRUE
  ELSE IF Len(b) = 0 THEN FALSE
  ELSE IF Head(a) = Head(b) THEN IsSubsequence(Tail(a), Tail(b))
  ELSE IsSubsequence(a, Tail(b))

\* C10 as claimed: the ledger's keys, in ledger order, are a subsequence of the
\* requested list.
C10_KeysSubsequenceOfRequest ==
  \A j \in DOMAIN run :
    /\ IsSubsequence(Keys(run[j].st.results), args[j].steps)
    /\ IsSubsequence(Keys(fut[j].value), args[j].steps)

\* C10 as amended: the ledger's keys, in ledger order, are a subsequence of the
\* requested list with each identifier stripped and lower-cased, while the run
\* builds the ledger, when it returns it and when the Job Record holds it.
C10_KeysSubsequenceOfNormalized ==
  \A j \in DOMAIN run :
    /\ IsSubsequence(Keys(run[j].st.results), Requested(j))
    /\ IsSubsequence(Keys(fut[j].value), Requested(j))
    /\ IsSubsequence(Keys(jobs[j].result.ledger), Requested(j))

\* a returned ledger of two keys for a request of three identifiers, one of
\* them in another spelling and one unknown
C10_Witness ==
  \E j \in DOMAIN fut :
    /\ fut[j].state = "result"
    /\ args[j].steps = << "READ_IDAT_FILES", "plot_everything", "basic_statistics" >>
    /\ Keys(fut[j].value) = << "read_idat_files", "basic_statistics" >>

\* The Pipeline State after the i-th attempt of run j
After(j, i) ==
  IF i < Len(run[j].hlog) THEN run[j].hlog[i + 1].before ELSE run[j].st

KnownPositions(j) ==
  { i \in 1..Len(args[j].steps) : Requested(j)[i] \in KnownSteps }

KnownRequested(j) ==
  { Requested(j)[i] : i \in KnownPositions(j) }

\* C12 as claimed: the ledger of a completed run has as many keys as the
\* request has identifiers of the vocabulary.
C12_KeyCountOfRequest ==
  \A j \in DOMAIN jobs :
    /\ fut[j].state = "result" =>
         Len(fut[j].value) = Cardinality(KnownPositions(j))
    /\ (jobs[j].status = "completed" /\ jobs[j].result.present) =>
         Len(jobs[j].result.ledger) = Cardinality(KnownPositions(j))

\* C12 as amended: the ledger of a completed run has one key for each distinct
\* (normalized) identifier of the vocabulary in the request, and no key twice.
C12_KeyCountOfDistinct ==
  \A j \in DOMAIN jobs :
    /\ fut[j].state = "result" =>
         /\ Len(fut[j].value) = Cardinality(KnownRequested(j))
         /\ \A a, b \in 1..Len(fut[j].value) :
              fut[j].value[a].key = fut[j].value[b].key => a = b
    /\ (jobs[j].status = "completed" /\ jobs[j].result.present) =>
         Len(jobs[j].result.ledger) = Cardinality(KnownRequested(j))

\* a completed job that requested one stage twice, in two spellings, and an
\* unknown identifier: one key
C12_Witness ==
  \E j \in DOMAIN jobs :
    /\ jobs[j].status = "completed"
    /\ jobs[j].result.present
    /\ args[j].steps = << "read_idat_files", "plot_everything", "READ_IDAT_FILES" >>
    /\ Len(jobs[j].result.ledger) = 1

\* C13: whenever the Beta Matrix and the Detection-Confidence Matrix of a run's
\* Pipeline State are both present they have the same sample columns.
C13_SameColumns ==
  \A j \in DOMAIN run :
    (run[j].st.betas.present /\ run[j].st.detP.present) =>
      run[j].st.betas.cols = run[j].st.detP.cols

\* C14: the stage index of a Job Record is between 0 and its total stage count,
\* and the total stage count is the length of the stage list given at launch.
C14_IndexWithinTotal ==
  \A j \in DOMAIN jobs :
    /\ 0 <= jobs[j].step_idx
    /\ jobs[j].step_idx <= jobs[j].total_steps
    /\ jobs[j].total_steps = Len(args[j].steps)

\* a running job whose progress callback has written the last position
C14_Witness ==
  \E j \in DOMAIN jobs :
    /\ jobs[j].status = "running"
    /\ run[j].pc = "stage"
    /\ jobs[j].step_idx = 2
    /\ jobs[j].total_steps = 2

\* C15: a Job Record in status completed has its stage index equal to its total
\* stage count.
C15_CompletedAtTotal ==
  \A j \in DOMAIN jobs :
    jobs[j].status = "completed" => jobs[j].step_idx = jobs[j].total_steps

\* a completed job whose first stage failed and whose second identifier is unknown
C15_Witness ==
  \E j \in DOMAIN jobs :
    /\ jobs[j].status = "completed"
    /\ jobs[j].result.present
    /\ args[j].steps = << "read_idat_files", "plot_everything" >>
    /\ Get(jobs[j].result.ledger, "read_idat_files") = "error"
    /\ jobs[j].step_idx = 2

\* C16: under fair scheduling every launched job eventually has status
\* completed or failed, also a job launched while both pool threads are busy.
C16_EveryJobEnds ==
  \A j \in 1..MaxPoolJobs :
    (j \in DOMAIN jobs) ~>
      (j \in DOMAIN jobs /\ jobs[j].status \in {"completed", "failed"})

\* three jobs on the two pool threads, all ended, the last one completed
C16_Witness ==
  /\ DOMAIN jobs = {1, 2, 3}
  /\ jobs[1].status \in {"completed", "failed"}
  /\ jobs[2].status \in {"completed", "failed"}
  /\ jobs[3].status = "completed"
  /\ jobs[3].result.present

\* C17: the summary record of a run is written after its last requested stage
\* and before the run returns: while the run is in its stages no summary is
\* there, a returned ledger and a completed job have the summary holding the
\* request and that ledger, and a run whose summary write raised leaves a job
\* that is running or failed, never completed.
C17_SummaryBeforeCompleted ==
  \A j \in DOMAIN jobs :
    LET file == summary[args[j].user_id] IN
    /\ (run[j].pc # "idle" \/ fut[j].state = "pending") => file = NoSummary
    /\ fut[j].state = "result" => file = Written(args[j].steps, fut[j].value)
    /\ jobs[j].status = "completed" =>
         /\ fut[j].state = "result"
         /\ file = Written(args[j].steps, fut[j].value)
    /\ fut[j].exc = "summary not written" =>
         /\ jobs[j].status \in {"running", "failed"}
         /\ file.state # "written"

\* a completed job of three identifiers whose summary holds an error entry
C17_Witness ==
  \E j \in DOMAIN jobs :
    /\ jobs[j].status = "completed"
    /\ Len(args[j].steps) = 3
    /\ summary[args[j].user_id].state = "written"
    /\ summary[args[j].user_id].steps = args[j].steps
    /\ Get(summary[args[j].user_id].results, "quality_control") = "error"

\* The probes with the smallest raw p-value
Smallest(p_values) ==
  { i \in 1..Len(p_values) : \A j \in 1..Len(p_values) : p_values[i] <= p_values[j] }

\* C18: in the output of the FDR correction a probe with the smallest raw
\* p-value has the smallest, or tied-smallest, adjusted value of all probes.
C18_SmallestStaysSmallest ==
  (call.fn = "fdr" /\ call.done) =>
    \A i \in Smallest(call.p_values) :
      \A j \in 1..Len(call.fdr) : Leq(call.fdr[i], call.fdr[j])

\* C19: the FDR correction gives one adjusted value per p-value, each in [0,1],
\* and tied p-values get the same adjusted value.
C19_FdrLengthAndRange ==
  (call.fn = "fdr" /\ call.done) =>
    /\ Len(call.fdr) = Len(call.p_values)
    /\ \A i \in 1..Len(call.fdr) :
         /\ call.fdr[i].den > 0
         /\ 0 <= call.fdr[i].num
         /\ call.fdr[i].num <= call.fdr[i].den
    /\ \A i, j \in 1..Len(call.fdr) :
         call.p_values[i] = call.p_values[j] => call.fdr[i] = call.fdr[j]

\* three p-values, two of them tied at 1, corrected
C19_Witness ==
  /\ call.fn = "fdr"
  /\ call.done
  /\ call.p_values = << 4, 1, 4 >>
  /\ call.fdr[1] = Ratio(1, 1)

\* C20: a perform_pca that returns has selected no more probes than there are,
\* and has kept no more than 10 components and no more than the number of
\* samples minus 1.
C20_PcaShapes ==
  (call.fn = "perform_pca" /\ call.done /\ ~call.out.raised) =>
    /\ call.out.actual_top <= call.n_probes
    /\ call.out.n_components <= MaxComponents
    /\ call.out.n_components <= call.n_samples - 1

\* The order in which C21 names the candidates: the column mapped to genotype,
\* the one mapped to tissue, the columns mapped to other concepts, then every
\* column of the table
OtherMapped(column_mappings) ==
  SelectSeq(column_mappings, LAMBDA e : e.key \notin {"genotype", "tissue"})

ClaimedOrder(column_mappings) ==
  << Get(column_mappings, "genotype"), Get(column_mappings, "tissue") >>
    \o [i \in 1..Len(OtherMapped(column_mappings)) |->
          OtherMapped(column_mappings)[i].val]
    \o MetaColumns

\* a column of the table with exactly two distinct (non-missing) values among
\* the samples that are in both the matrix and the table
TwoGroupColumn(col) ==
  /\ col \in MetaColumnSet
  /\ Cardinality({ call.targets[col][s] :
                     s \in call.betas_columns \cap MetaRows } \ {NaN}) = 2

\* C21: group-column selection returns the first candidate, in the order mapped
\* genotype, mapped tissue, other mapped columns, every metadata column, that
\* has exactly two distinct values among the matched samples, and no column
\* when there is none.
C21_FirstTwoGroupColumn ==
  (call.fn = "select_group_column" /\ call.done) =>
    LET order == ClaimedOrder(call.column_mappings)
        hits == { i \in 1..Len(order) : TwoGroupColumn(order[i]) } IN
    IF hits = {} THEN call.out = None
    ELSE call.out = order[CHOOSE i \in hits : \A k \in hits : i <= k]

\* genotype is mapped to a column that has two values only through a row that
\* is not in the matrix; the column mapped to batch is returned
C21_Witness ==
  /\ call.fn = "select_group_column"
  /\ call.done
  /\ call.betas_columns = {"s1", "s2"}
  /\ Get(call.column_mappings, "genotype") = "c1"
  /\ Get(call.column_mappings, "tissue") = "zz"
  /\ Get(call.column_mappings, "batch") = "c2"
  /\ call.targets["c1"] = [s \in MetaRows |-> IF s = "s3" THEN "B" ELSE "A"]
  /\ call.out = "c2"

\* the samples in both the matrix and the table of the call under way
Matched == call.betas_columns \cap Rows(call.targets.table)

\* C22: a successful differential_analysis reports n_probes_tested equal to the
\* number of probes, two group sizes that count every matched sample in exactly
\* one group, and top_dmps with the min(N, probe count) probes of smallest FDR
\* in ascending FDR order (values that are not numbers last).
C22_DifferentialReport ==
  (call.fn = "differential_analysis" /\ call.done /\ call.out.kind = "ok") =>
    LET out == call.out
        labels == call.targets.table[out.group_column]
        n == Len(call.p_values)
        top == out.top_dmps
        InTop == { top[k].probe : k \in 1..Len(top) } IN
    /\ out.n_probes_tested = n
    /\ \A s \in Matched :
         Cardinality({ g \in 1..2 : labels[s] = out.groups[g] }) = 1
    /\ \A g \in 1..2 :
         out.group_sizes[g] =
           Cardinality({ s \in Matched : labels[s] = out.groups[g] })
    /\ out.group_sizes[1] + out.group_sizes[2] = Cardinality(Matched)
    /\ Len(top) = Min(call.top_n, n)
    /\ Cardinality(InTop) = Len(top)
    /\ InTop \subseteq 1..n
    /\ \A a, b \in 1..Len(top) : a < b => SortsBefore(top[a].fdr, top[b].fdr)
    /\ \A k \in 1..Len(top) : \A i \in (1..n) \ InTop :
         SortsBefore(top[k].fdr, FdrOf(call.p_values, out.group_sizes[1],
                                       out.group_sizes[2])[i])

\* three probes tested on two groups of two with an unmatched sample in the
\* matrix; the two probes of smallest FDR are reported, out of probe order
C22_Witness ==
  /\ call.fn = "differential_analysis"
  /\ call.done
  /\ call.out.kind = "ok"
  /\ "s9" \in call.betas_columns
  /\ call.out.group_sizes = << 2, 2 >>
  /\ call.p_values = << 4, 1, 0 >>
  /\ call.top_n = 2
  /\ call.out.top_dmps[1].probe = 3
  /\ call.out.top_dmps[2].probe = 2

\* C23: a launch that is answered with an error changes no Job Record, adds
\* none and schedules nothing; and no Job Record ever comes from an empty stage
\* list or from an identity without a project record.
C23_RefusedLaunch ==
  [][ /\ (response'.op = "run" /\ response'.code # 200) =>
           /\ response'.code \in {400, 404}
           /\ response'.job_id = 0
           /\ jobs' = jobs
           /\ args' = args
           /\ task' = task
           /\ fut' = fut
           /\ queue' = queue
           /\ run' = run
      /\ \A j \in DOMAIN jobs' :
           /\ args'[j].steps # << >>
           /\ HasProject(jobs'[j].user_id) ]_vars

\* an identity without a project is refused while a job of another is running
C23_Witness ==
  /\ response.op = "run"
  /\ response.code = 404
  /\ response.caller = "carol"
  /\ \E j \in DOMAIN jobs : jobs[j].status = "running" /\ run[j].pc = "stage"

\* C24: a Job Record stays in the store and keeps its owner and creation time,
\* and it changes only in a step of its own task or of the worker running its
\* own job, a step in which no other job's task or worker moves.
C24_OwnRecordOnly ==
  [][ \A j \in DOMAIN jobs :
        /\ j \in DOMAIN jobs'
        /\ jobs'[j].user_id = jobs[j].user_id
        /\ jobs'[j].created_at = jobs[j].created_at
        /\ jobs'[j] # jobs[j] =>
             /\ task'[j] # task[j] \/ run'[j].pc # run[j].pc
             /\ \A k \in DOMAIN jobs \ {j} :
                  /\ jobs'[k] = jobs[k]
                  /\ task'[k] = task[k]
                  /\ run'[k] = run[k] ]_vars

\* two jobs on the two workers, each with its own progress in its record
C24_Witness ==
  /\ DOMAIN jobs = {1, 2}
  /\ run[1].pc = "stage"
  /\ run[2].pc = "stage"
  /\ jobs[1].step = "read_idat_files"
  /\ jobs[2].step = "plot_everything"
  /\ jobs[1].step_idx = 2
  /\ jobs[2].step_idx = 1

\* C25: a returning create_heatmap reports the mean, minimum and maximum of the
\* Pearson correlation over the unordered pairs of distinct samples (the
\* correlation matrix is indexed by sample, so there are n(n-1)/2 of them for
\* n samples), and with fewer than two samples all three are 0.
C25_SamplePairStatistics ==
  (call.fn = "create_heatmap" /\ call.done /\ ~call.out.raised) =>
    /\ call.out.corr_index = "samples"
    /\ call.out.n_upper = UpperCells(call.n_samples)
    /\ call.n_samples < 2 =>
         /\ call.out.mean_pairwise_correlation = "zero"
         /\ call.out.min_pairwise_correlation = "zero"
         /\ call.out.max_pairwise_correlation = "zero"

\* The numerical tolerance of a round trip, 10^-6, and |x - y| <= tolerance
\* (computed without the product that would leave the integer range)
Tolerance == Ratio(1, 1000000)

AbsDiff(x, y) ==
  LET a == x.num * y.den
      b == y.num * x.den
  IN  Ratio(IF a >= b THEN a - b ELSE b - a, x.den * y.den)

WithinTolerance(x, y) ==
  AbsDiff(x, y).num * Tolerance.num <= AbsDiff(x, y).den \div Tolerance.den

Less(x, y) == ~Leq(y, x)

RoundTripDone == call.fn = "beta_m_beta" /\ call.done

\* C26 (as stated): converting a beta value to an M-value and back reproduces
\* the value within numerical tolerance for every input strictly inside (0,1).
C26_RoundTripInsideUnit ==
  (/\ RoundTripDone
   /\ Less(Ratio(0, 1), call.betas)
   /\ Less(call.betas, Ratio(1, 1))) =>
    WithinTolerance(call.out.v, call.betas)

\* C26 (amended): the round trip reproduces, within numerical tolerance, every
\* input in [0.001, 0.999]; an input below 0.001 comes back as 0.001 and an
\* input above 0.999 comes back as 0.999.
C26_RoundTripInsideClip ==
  RoundTripDone =>
    /\ (Leq(ClipLow, call.betas) /\ Leq(call.betas, ClipHigh)) =>
         WithinTolerance(call.out.v, call.betas)
    /\ Less(call.betas, ClipLow) => WithinTolerance(call.out.v, ClipLow)
    /\ Less(ClipHigh, call.betas) => WithinTolerance(call.out.v, ClipHigh)

\* A value strictly between 0 and 0.001 has made the round trip and has come
\* back as 0.001
C26_Witness ==
  /\ RoundTripDone
  /\ Less(Ratio(0, 1), call.betas)
  /\ Less(call.betas, ClipLow)
  /\ call.out.v = ClipLow

\* The attempts a call has made, and the events of its log
AiRequests == { i \in 1..Len(call.log) : call.log[i].kind = "request" }

AiSleeps == { i \in 1..Len(call.log) : call.log[i].kind = "sleep" }

AiFailed(i) == call.log[i].outcome \notin {"content", "reasoning_content"}

\* C27: a call to the AI collaborator makes at most 3 request attempts; it
\* returns the content of the first attempt that succeeds with non-empty
\* content and makes no further attempt; after a failed attempt k that is not
\* the last it waits 2^k seconds (k = 0, 1) before the next; when all 3 fail it
\* raises an error carrying the last failure's description, with no wait after
\* the last attempt.
C27_ThreeAttempts ==
  call.fn = "make_request" =>
    /\ Cardinality(AiRequests) <= 3
    /\ \A i \in AiRequests :
         /\ call.log[i].attempt = Cardinality({ j \in AiRequests : j < i })
         /\ ~AiFailed(i) =>
              /\ i = Len(call.log)
              /\ call.pc = "returned"
              /\ call.out = Value([raised |-> FALSE,
                                   content |-> call.log[i].outcome,
                                   attempt |-> call.log[i].attempt])
         /\ (AiFailed(i) /\ i < Len(call.log)) =>
              /\ call.log[i].attempt \in {0, 1}
              /\ call.log[i + 1].kind = "sleep"
              /\ call.log[i + 1].seconds = 2 ^ call.log[i].attempt
         /\ (AiFailed(i) /\ call.log[i].attempt = 2) =>
              /\ i = Len(call.log)
              /\ call.pc \in {"raise", "raised"}
    /\ \A i \in AiSleeps :
         /\ i > 1
         /\ i - 1 \in AiRequests
         /\ AiFailed(i - 1)
         /\ i < Len(call.log) => i + 1 \in AiRequests
    /\ call.pc = "returned" =>
         (call.log # << >> /\ ~AiFailed(Len(call.log)))
    /\ call.pc = "raised" =>
         /\ Cardinality(AiRequests) = 3
         /\ \A i \in AiRequests : AiFailed(i)
         /\ call.log[Len(call.log)].kind = "request"
         /\ call.out.v.raised
         /\ call.out.v.last_error =
              LastError(call.log[Len(call.log)].outcome, 2)

\* A call has raised after three failed attempts and two waits
C27_Witness ==
  /\ call.fn = "make_request"
  /\ call.pc = "raised"
  /\ Cardinality(AiSleeps) = 2
  /\ call.out.v.last_error.text = "Model returned empty content"

\* A call has returned the content of its second attempt after one wait
C27_WitnessReturned ==
  /\ call.fn = "make_request"
  /\ call.pc = "returned"
  /\ call.out.v.attempt = 1
  /\ Cardinality(AiSleeps) = 1

\* C28: a job whose status is running occupies a worker: the number of Job
\* Records in status running is at most the pool size MaxWorkers, and a job
\* that waits in the executor's queue while every worker is busy is reported
\* as pending.
C28_RunningOccupiesWorker ==
  /\ Cardinality({ j \in DOMAIN jobs : jobs[j].status = "running" }) <= MaxWorkers
  /\ Cardinality(Active) = MaxWorkers =>
       \A i \in 1..Len(queue) : jobs[queue[i]].status = "pending"

\* C29: every status snapshot returned to a poller is consistent in its
\* progress fields, also when the poll runs while the worker reports progress:
\* with stage index i >= 1 the stage name is the normalized i-th identifier of
\* the requested list, and with index 0 the stage name is absent.
C29_ConsistentSnapshot ==
  (response.op = "status" /\ response.code = 200) =>
    /\ response.step_idx = 0 => response.step = None
    /\ response.step_idx >= 1 =>
         /\ response.step_idx <= Len(args[response.job_id].steps)
         /\ response.step =
              Normalize(args[response.job_id].steps[response.step_idx])

\* C30: the Sample Metadata Table that is present in the Pipeline State at the
\* start of a run stays present for the whole run: no stage, and in particular
\* no successful read_idat_files under any Column Mapping, replaces it with an
\* absent value.
C30_TargetsStayPresent ==
  \A j \in DOMAIN jobs : run[j].st.targets # None

\* C31: when a job reaches status completed, the workflow summary record of
\* its owning identity holds that job's requested stage list and that job's
\* ledger, also when two jobs of one identity run at the same time.
C31_SummaryOfCompletedJob ==
  [][\A j \in DOMAIN jobs :
       (jobs[j].status # "completed" /\ jobs'[j].status = "completed") =>
         summary'[jobs[j].user_id] = Written(args[j].steps, fut[j].value)]_vars

\* The Beta Matrix, Detection-Confidence Matrix and Sample Metadata Table of a
\* Pipeline State
Frame(st) == << st.betas, st.detP, st.targets >>

StateChangingSteps ==
  {"read_idat_files", "quality_control", "combat_normalization"}

\* C32: the Pipeline State changes only when read_idat_files, quality_control
\* or combat_normalization completes successfully: a stage that fails, an
\* unknown identifier and each analysis stage leave the Beta Matrix, the
\* Detection-Confidence Matrix and the Sample Metadata Table as they were.
C32_FrameOfPipelineState ==
  [][\A j \in DOMAIN jobs :
       (run[j].pc = "stage" /\ Frame(run'[j].st) # Frame(run[j].st)) =>
         LET h == run'[j].hlog[Len(run'[j].hlog)] IN
           /\ h.step \in StateChangingSteps
           /\ ~h.raised
           /\ h.entry = "ok"]_vars

\* An analysis stage has run, a stage has failed and an unknown identifier has
\* been skipped, in a run whose Beta Matrix is present
C32_Witness ==
  \E j \in DOMAIN jobs :
    /\ run[j].st.betas.present
    /\ \E a, b \in 1..Len(run[j].hlog) :
         /\ run[j].hlog[a].step = "basic_statistics"
         /\ run[j].hlog[a].before.betas.present
         /\ ~run[j].hlog[a].raised
         /\ run[j].hlog[b].raised
         /\ run[j].hlog[b].before.betas.present

\* C33: each stage checks its precondition against the current Pipeline State
\* before it does any work (quality_control: both matrices present;
\* combat_normalization: Beta Matrix and Sample Metadata Table present; the
\* five analysis stages: Beta Matrix present; read_idat_files: none). When the
\* precondition does not hold the stage's function is not called and the
\* stage's ledger entry is an error; when it holds the function is called.
C33_PreconditionBeforeWork ==
  \A j \in DOMAIN jobs :
    \A b \in 1..Len(run[j].hlog) :
      LET h == run[j].hlog[b] IN
      /\ ~PreconditionMet(h.step, h.before) =>
           (~h.called /\ h.entry = "error")
      /\ (h.step \in KnownSteps /\ PreconditionMet(h.step, h.before)) =>
           h.called

\* combat_normalization was requested with the Beta Matrix present and the
\* Sample Metadata Table absent, and was refused
C33_Witness ==
  \E j \in DOMAIN jobs :
    \E b \in 1..Len(run[j].hlog) :
      /\ run[j].hlog[b].step = "combat_normalization"
      /\ run[j].hlog[b].before.betas.present
      /\ run[j].hlog[b].before.targets = None
      /\ ~run[j].hlog[b].called
      /\ run[j].hlog[b].entry = "error"

\* The stage step a run has just taken, as its log records it
LastLogged(j) == run'[j].hlog[Len(run'[j].hlog)]

\* C34: when create_volcano_plot runs with a present Beta Matrix it uses the
\* differential_analysis entry of the run's ledger if there is one and does
\* not recompute it (the entry stays as it was); if there is none it computes
\* the analysis inline, and the inline result is not added to the ledger under
\* the differential_analysis key.
C34_ReuseOrInline ==
  [][\A j \in DOMAIN jobs :
       ( /\ run[j].pc = "stage"
         /\ Len(run'[j].hlog) = Len(run[j].hlog) + 1
         /\ LastLogged(j).step = "create_volcano_plot"
         /\ run[j].st.betas.present ) =>
       /\ LastLogged(j).called
       /\ IF HasKey(run[j].st.results, "differential_analysis")
          THEN /\ LastLogged(j).diff = "ledger"
               /\ Get(run'[j].st.results, "differential_analysis") =
                    Get(run[j].st.results, "differential_analysis")
          ELSE /\ LastLogged(j).diff = "inline"
               /\ ~HasKey(run'[j].st.results, "differential_analysis")]_vars

\* Both cases have happened: a volcano stage reused the ledger's entry ...
C34_Witness ==
  \E j \in DOMAIN jobs :
    \E b \in 1..Len(run[j].hlog) :
      /\ run[j].hlog[b].step = "create_volcano_plot"
      /\ run[j].hlog[b].diff = "ledger"
      /\ run[j].hlog[b].entry = "ok"

\* ... and a volcano stage computed the analysis inline
C34_WitnessInline ==
  \E j \in DOMAIN jobs :
    \E b \in 1..Len(run[j].hlog) :
      /\ run[j].hlog[b].step = "create_volcano_plot"
      /\ run[j].hlog[b].diff = "inline"
      /\ run[j].hlog[b].entry = "ok"
      /\ run[j].pc = "summary"
      /\ ~HasKey(run[j].st.results, "differential_analysis")

\* The latest entry of run j's log before position b that is a
\* differential_analysis stage (0 if there is none)
LastDifferential(j, b) ==
  LET earlier == { a \in 1..(b - 1) :
                     run[j].hlog[a].step = "differential_analysis" }
  IN  IF earlier = {} THEN 0
      ELSE CHOOSE a \in earlier : \A c \in earlier : c <= a

\* C35: whenever create_volcano_plot runs with a present Beta Matrix, the
\* differential result it classifies was computed from the Beta Matrix and
\* Sample Metadata Table current at that moment: a differential_analysis entry
\* recorded before a later stage replaced the Beta Matrix, or while the Beta
\* Matrix was absent, is never what the volcano stage reports on.
C35_DifferentialIsCurrent ==
  \A j \in DOMAIN jobs :
    \A b \in 1..Len(run[j].hlog) :
      LET h == run[j].hlog[b]
          a == LastDifferential(j, b) IN
      (h.step = "create_volcano_plot" /\ h.called /\ h.diff = "ledger") =>
        /\ a # 0
        /\ run[j].hlog[a].called
        /\ \A c \in (a + 1)..(b - 1) :
             ~( /\ run[j].hlog[c].step \in StateChangingSteps
                /\ ~run[j].hlog[c].raised )
        /\ Frame(run[j].hlog[a].before) = Frame(h.before)

\* C36: whenever group-column selection returns a column, differential_analysis
\* goes on to split the matched samples into exactly two groups on it: it never
\* returns the 'exactly 2 are required' error for a column that selection
\* accepted, also when the column has missing values for some matched samples.
C36_AcceptedColumnSplits ==
  ( /\ call.fn = "differential_analysis"
    /\ call.done
    /\ call.targets.present
    /\ SelectGroupColumn(call.betas_columns, call.targets.table,
                         call.column_mappings) # None ) =>
    call.out.error # "exactly 2 are required."

\* C37: differential_analysis returns a structured error payload, and does not
\* go on to the test, when no column qualifies as a two-group column or when
\* fewer than 4 samples are in both the Beta Matrix and the Sample Metadata
\* Table: the payload names the reason and has no tested probes and no top_dmps.
C37_StructuredErrors ==
  (call.fn = "differential_analysis" /\ call.done /\ call.targets.present) =>
    LET group_col == SelectGroupColumn(call.betas_columns, call.targets.table,
                                       call.column_mappings) IN
    /\ group_col = None =>
         call.out = ErrorPayload("Could not find a suitable two-group column in targets.")
    /\ (group_col # None /\ Cardinality(Matched) < 4) =>
         call.out = ErrorPayload("Too few matched samples for differential analysis.")
    /\ (group_col = None \/ Cardinality(Matched) < 4) =>
         /\ call.out.kind = "error"
         /\ call.out.n_probes_tested = 0
         /\ call.out.top_dmps = << >>

\* Three samples are matched and their column has two values: the call has
\* returned the error payload for too few samples
C37_Witness ==
  /\ call.fn = "differential_analysis"
  /\ call.done
  /\ call.targets.present
  /\ Cardinality(Matched) = 3
  /\ call.targets.table["c1"]["s1"] = "A"
  /\ call.targets.table["c1"]["s2"] = "B"
  /\ call.out.error = "Too few matched samples for differential analysis."

\* No column has two values among the matched samples: the call has returned
\* the error payload for no suitable column
C37_WitnessNoColumn ==
  /\ call.fn = "differential_analysis"
  /\ call.done
  /\ call.targets.present
  /\ Cardinality(Matched) = 4
  /\ call.out.error = "Could not find a suitable two-group column in targets."

\* C38: in perform_pca a sample for which no metadata row is found by any of
\* the three matching rules is still included in the analysis and its output,
\* with the label Unknown for all three groupings, whether or not other
\* samples match.
C38_UnmatchedIncluded ==
  (call.fn = "perform_pca_matching" /\ call.done /\ ~call.out.raised) =>
    \A s \in call.betas_columns :
      FindTargetRow(s, call.targets) = None =>
        /\ s \in DOMAIN call.out.pca_data
        /\ call.out.pca_data[s] =
             [Tissue |-> "Unknown", Batch |-> "Unknown", Genotype |-> "Unknown"]

\* The differential result a call of create_volcano_plot consumes: the entry it
\* was handed, or the one computed inline
Consumed == IF call.diff_results.present THEN call.diff_results.v ELSE call.inline

VolcanoDone == call.fn = "create_volcano_plot" /\ call.done

\* C39: if the differential result that create_volcano_plot consumes (reused
\* from the ledger or computed inline) is an error payload, the function
\* returns that payload unchanged, with no plot and no tier count, and the
\* run's ledger entry for create_volcano_plot carries the same error.
C39_ErrorPropagates ==
  (VolcanoDone /\ Consumed.kind = "error") =>
    /\ call.out.res.kind = "error"
    /\ call.out.res.error = Consumed.error
    /\ call.out.res.plots = {}
    /\ call.out.res.colours = << >>
    /\ ~call.out.res.n_highlighted_dmps.present
    /\ call.out.entry.kind = "error"
    /\ call.out.entry.error = Consumed.error
    /\ call.out.entry.plot_files = {}
    /\ ~call.out.entry.n_highlighted_dmps.present

\* An error entry of the ledger was handed over and came back
C39_Witness ==
  /\ VolcanoDone
  /\ call.diff_results.present
  /\ call.diff_results.v.kind = "error"
  /\ call.out.entry.error = "differential_analysis requires beta values."

\* The inline analysis gave an error payload and it came back
C39_WitnessInline ==
  /\ VolcanoDone
  /\ ~call.diff_results.present
  /\ call.inline.kind = "error"
  /\ call.out.entry.error = "Too few matched samples for differential analysis."

\* The three tiers, and the number of rows of a tier
LargeEffect == "#E8433A"

SignificantOnly == "#2560E0"

NotSignificant == "#AAAAAA"

\* C40 (as stated): each probe of the reported list is in exactly one of three
\* tiers: 'significant and large effect' iff FDR < FDR threshold and
\* |fold change| >= fold-change threshold, 'significant only' iff FDR < FDR
\* threshold and |fold change| < fold-change threshold, 'not significant' iff
\* FDR >= FDR threshold; the highlighted count is the size of the first tier.
C40_ThreeTiers ==
  (VolcanoDone /\ call.out.res.kind = "ok") =>
    LET rows == Consumed.top_dmps
        tier == call.out.res.colours IN
    /\ Len(tier) = Len(rows)
    /\ \A k \in 1..Len(rows) :
         /\ tier[k] \in {LargeEffect, SignificantOnly, NotSignificant}
         /\ tier[k] = LargeEffect <=>
              ( /\ Lt(rows[k].fdr, VolcanoFdrThreshold)
                /\ Geq(Abs(rows[k].log2_fc), FcThreshold) )
         /\ tier[k] = SignificantOnly <=>
              ( /\ Lt(rows[k].fdr, VolcanoFdrThreshold)
                /\ Lt(Abs(rows[k].log2_fc), FcThreshold) )
         /\ tier[k] = NotSignificant <=> Geq(rows[k].fdr, VolcanoFdrThreshold)
    /\ call.out.res.n_highlighted_dmps =
         [present |-> TRUE,
          n |-> Cardinality({ k \in 1..Len(rows) : tier[k] = LargeEffect })]

\* C40 (amended): as stated, except that 'not significant' holds iff the FDR is
\* not below the FDR threshold: it is at or above it, or it is not a number.
C40_ThreeTiersUndefinedFdr ==
  (VolcanoDone /\ call.out.res.kind = "ok") =>
    LET rows == Consumed.top_dmps
        tier == call.out.res.colours IN
    /\ Len(tier) = Len(rows)
    /\ \A k \in 1..Len(rows) :
         /\ tier[k] \in {LargeEffect, SignificantOnly, NotSignificant}
         /\ tier[k] = LargeEffect <=>
              ( /\ Lt(rows[k].fdr, VolcanoFdrThreshold)
                /\ Geq(Abs(rows[k].log2_fc), FcThreshold) )
         /\ tier[k] = SignificantOnly <=>
              ( /\ Lt(rows[k].fdr, VolcanoFdrThreshold)
                /\ Lt(Abs(rows[k].log2_fc), FcThreshold) )
         /\ tier[k] = NotSignificant <=>
              ( \/ Geq(rows[k].fdr, VolcanoFdrThreshold)
                \/ IsNaN(rows[k].fdr) )
    /\ call.out.res.n_highlighted_dmps =
         [present |-> TRUE,
          n |-> Cardinality({ k \in 1..Len(rows) : tier[k] = LargeEffect })]

\* A probe of large negative fold change below the FDR threshold and a probe
\* whose FDR is not a number have been classified
C40_Witness ==
  /\ VolcanoDone
  /\ call.out.res.kind = "ok"
  /\ Len(Consumed.top_dmps) = 2
  /\ Consumed.top_dmps[1] = [fdr |-> Ratio(1, 100), log2_fc |-> Ratio(0 - 3, 2)]
  /\ IsNaN(Consumed.top_dmps[2].fdr)
  /\ call.out.res.colours = << LargeEffect, NotSignificant >>
  /\ call.out.res.n_highlighted_dmps.n = 1

====
